---------------------------- MODULE Spec2Model ----------------------------
(***************************************************************************)
(* Duda Rechnungskontrolle: the reconciliation core (table normaliser,     *)
(* identifier repair, product classification, policy engine, summary).     *)
(*                                                                         *)
(* Cells of the two tables are strings, as pandas reads them from CSV.     *)
(* A missing cell (float NaN) is the reserved value NaN below; Python's    *)
(* None is the reserved value None.  Neither is a text a cell can hold.    *)
(***************************************************************************)
EXTENDS Integers, Sequences, FiniteSets, TLC

VARIABLES
    pc,         \* position of the run: which step of main() comes next
    duda_raw,   \* the billing export as parsed by read_csv (all rows)
    duda_df,    \* the billing table held by the program (loaded, then repaired)
    crm_df,     \* the canonical CRM table (result of load_crm_file)
    now,        \* datetime.now() of the run
    issues,     \* result of DataAnalyzer.find_issues
    summary,    \* result of DataAnalyzer.get_summary
    args,       \* arguments of a directly called function
    ret,        \* its result
    api_username,     \* DudaAPIVerifier: st.secrets["duda"].get("api_username")
    api_password,     \* DudaAPIVerifier: st.secrets["duda"].get("api_password")
    api_available,    \* DudaAPIVerifier.api_available
    idx,              \* verify_issues: number of issues the loop has gone through
    verified_issues,  \* verify_issues: the issues that remain
    false_positives,  \* verify_issues: the issues the API cleared
    api_errors,       \* verify_issues: the issues whose query failed
    api_calls_made,   \* verify_issues: counter of status queries
    requests,         \* the HTTP requests sent so far, in order
    remote,           \* the answers the API may give to the requests of this run
    session_state,    \* st.session_state: the keys set so far and their values
    csv_data          \* display_results: the report offered for download in this run

verifier_vars == <<api_username, api_password, api_available, idx, verified_issues,
                   false_positives, api_errors, api_calls_made, requests, remote>>

display_vars == <<session_state, csv_data>>

vars == <<pc, duda_raw, duda_df, crm_df, now, issues, summary, args, ret, verifier_vars,
          display_vars>>

\* no report is offered: display_results returned early or found no issues
NoReport == [is_none |-> TRUE]

\* a fresh session, nothing rendered
DisplayIdle == session_state = [key \in {} |-> 0] /\ csv_data = NoReport

-----------------------------------------------------------------------------
(* Python values *)

NaN == "<NaN>"
None == "<None>"

\* pd.isna(v)
isna(v) == v = NaN \/ v = None

\* str(v)
str(v) == IF v = NaN THEN "nan" ELSE IF v = None THEN "None" ELSE v

\* bool(v): float nan is truthy, None and '' are falsy
Truthy(v) == v # None /\ v # ""

-----------------------------------------------------------------------------
(* Python string operations *)

Char(s, i) == SubSeq(s, i, i)

DropFirst(s, n) == SubSeq(s, n + 1, Len(s))

\* t in s
Contains(s, t) ==
    \E i \in 1..(Len(s) - Len(t) + 1) : SubSeq(s, i, i + Len(t) - 1) = t

\* s.startswith(t)
StartsWith(s, t) == Len(s) >= Len(t) /\ SubSeq(s, 1, Len(t)) = t

UpperLetters == "ABCDEFGHIJKLMNOPQRSTUVWXYZ"
LowerLetters == "abcdefghijklmnopqrstuvwxyz"

UpperSet == {Char(UpperLetters, k) : k \in 1..26}
LowerSet == {Char(LowerLetters, k) : k \in 1..26}

ToLower == [c \in UpperSet |-> Char(LowerLetters, CHOOSE k \in 1..26 : Char(UpperLetters, k) = c)]

LowerChar(c) == IF c \in UpperSet THEN ToLower[c] ELSE c

RECURSIVE lower(_)
\* s.lower()
lower(s) == IF s = "" THEN "" ELSE LowerChar(Char(s, 1)) \o lower(DropFirst(s, 1))

IsSpace(c) == c = " "

RECURSIVE lstrip(_)
lstrip(s) == IF s # "" /\ IsSpace(Char(s, 1)) THEN lstrip(DropFirst(s, 1)) ELSE s

RECURSIVE rstrip(_)
rstrip(s) ==
    IF s # "" /\ IsSpace(Char(s, Len(s))) THEN rstrip(SubSeq(s, 1, Len(s) - 1)) ELSE s

\* s.strip()
strip(s) == rstrip(lstrip(s))

Digits == "0123456789"

DigitSet == {Char(Digits, k) : k \in 1..10}

DigitValue == [c \in DigitSet |-> (CHOOSE k \in 1..10 : Char(Digits, k) = c) - 1]

IsDigit(c) == c \in DigitSet

DigitVal(c) == DigitValue[c]

AllDigits(s) == \A i \in 1..Len(s) : IsDigit(Char(s, i))

RECURSIVE ToInt(_)
\* int(s) of a string of decimal digits
ToInt(s) ==
    IF s = "" THEN 0
    ELSE 10 * ToInt(SubSeq(s, 1, Len(s) - 1)) + DigitVal(Char(s, Len(s)))


RECURSIVE Remove(_, _)
\* s.replace(c, '') for a single character c
Remove(s, c) ==
    IF s = "" THEN ""
    ELSE (IF Char(s, 1) = c THEN "" ELSE Char(s, 1)) \o Remove(DropFirst(s, 1), c)

-----------------------------------------------------------------------------
(* datetime: strptime, date arithmetic *)

IsLeap(y) == y % 4 = 0 /\ (y % 100 # 0 \/ y % 400 = 0)

DaysInMonth(y, m) ==
    IF m = 2 THEN (IF IsLeap(y) THEN 29 ELSE 28)
    ELSE IF m \in {4, 6, 9, 11} THEN 30 ELSE 31

RECURSIVE DaysBeforeMonth(_, _)
DaysBeforeMonth(y, m) ==
    IF m = 1 THEN 0 ELSE DaysBeforeMonth(y, m - 1) + DaysInMonth(y, m - 1)

DaysBeforeYear(y) ==
    365 * (y - 1) + ((y - 1) \div 4) - ((y - 1) \div 100) + ((y - 1) \div 400)

\* date.toordinal()
ToOrdinal(y, m, d) == DaysBeforeYear(y) + DaysBeforeMonth(y, m) + d

NoTime == [Y |-> 1900, m |-> 1, d |-> 1, H |-> 0, M |-> 0, S |-> 0, f |-> 0]

\* the digit widths strptime's regular expression tries for a directive, in order
Widths(dir) ==
    IF dir = "Y" THEN <<4>>
    ELSE IF dir = "f" THEN <<6, 5, 4, 3, 2, 1>>
    ELSE <<2, 1>>

\* the values the directive's regular expression accepts at a width
DirectiveOk(dir, w, v) ==
    CASE dir = "Y" -> TRUE
      [] dir = "m" -> v >= 1 /\ v <= 12
      [] dir = "d" -> v >= 1 /\ v <= 31
      [] dir = "H" -> v <= 23
      [] dir = "M" -> v <= 59
      [] dir = "S" -> v <= 61
      [] dir = "f" -> TRUE
      [] OTHER -> FALSE

RECURSIVE Pow10(_)
Pow10(n) == IF n = 0 THEN 1 ELSE 10 * Pow10(n - 1)

SetField(acc, dir, w, v) ==
    IF dir = "f" THEN [acc EXCEPT !.f = v * Pow10(6 - w)] ELSE [acc EXCEPT ![dir] = v]

StrpFail == [ok |-> FALSE]

RECURSIVE Strp(_, _, _)
RECURSIVE StrpDirective(_, _, _, _, _)

\* the match of strptime's regular expression for fmt against the whole of s
Strp(fmt, s, acc) ==
    IF fmt = "" THEN (IF s = "" THEN [ok |-> TRUE, v |-> acc] ELSE StrpFail)
    ELSE IF Char(fmt, 1) = "%"
    THEN StrpDirective(Char(fmt, 2), DropFirst(fmt, 2), s, acc, 1)
    ELSE IF Char(fmt, 1) = " "
    THEN (IF s # "" /\ IsSpace(Char(s, 1))
          THEN Strp(DropFirst(fmt, 1), lstrip(s), acc) ELSE StrpFail)
    ELSE IF s # "" /\ Char(s, 1) = Char(fmt, 1)
    THEN Strp(DropFirst(fmt, 1), DropFirst(s, 1), acc)
    ELSE StrpFail

StrpDirective(dir, rest, s, acc, k) ==
    IF k > Len(Widths(dir)) THEN StrpFail
    ELSE LET w == Widths(dir)[k]
             head == SubSeq(s, 1, w)
             r == IF Len(s) >= w /\ AllDigits(head) /\ DirectiveOk(dir, w, ToInt(head))
                  THEN Strp(rest, DropFirst(s, w), SetField(acc, dir, w, ToInt(head)))
                  ELSE StrpFail
         IN IF r.ok THEN r ELSE StrpDirective(dir, rest, s, acc, k + 1)

\* datetime.strptime(s, fmt): a datetime, or ValueError (ok = FALSE)
strptime(s, fmt) ==
    LET r == Strp(fmt, s, NoTime)
    IN IF r.ok /\ r.v.Y >= 1 /\ r.v.d <= DaysInMonth(r.v.Y, r.v.m) /\ r.v.S <= 59
       THEN r ELSE StrpFail

formats_to_try == <<
    "%Y-%m-%d",
    "%m/%d/%Y",
    "%d.%m.%Y",
    "%Y-%m-%d %H:%M:%S",
    "%m/%d/%Y %H:%M:%S",
    "%d.%m.%Y %H:%M:%S",
    "%Y-%m-%dT%H:%M:%S.%fZ",
    "%Y-%m-%dT%H:%M:%SZ",
    "%Y-%m-%dT%H:%M:%S" >>

RECURSIVE TryFormats(_, _)
\* the loop over formats_to_try: the first format that parses wins
TryFormats(date_str, k) ==
    IF k > Len(formats_to_try) THEN StrpFail
    ELSE LET fmt == formats_to_try[k]
             clean_date_str == IF Contains(fmt, "Z") THEN Remove(date_str, "Z") ELSE date_str
             r == strptime(clean_date_str, Remove(fmt, "Z"))
         IN IF r.ok THEN r ELSE TryFormats(date_str, k + 1)

\* (a - b).days for two datetimes: the floor of the difference in days
DeltaDays(a, b) ==
    LET secs(t) == 3600 * t.H + 60 * t.M + t.S
        earlier == secs(a) < secs(b) \/ (secs(a) = secs(b) /\ a.f < b.f)
    IN ToOrdinal(a.Y, a.m, a.d) - ToOrdinal(b.Y, b.m, b.d) - (IF earlier THEN 1 ELSE 0)

-----------------------------------------------------------------------------
(* utils.py *)

\* the result of days_since_date: None, or a number of days
NoDays == [is_none |-> TRUE]
Days(n) == [is_none |-> FALSE, days |-> n]

\* days_since_date; datetime.now() is the run's now
days_since_date(date_value) ==
    IF isna(date_value) \/ strip(str(date_value)) \in {"", "nan"} THEN NoDays
    ELSE LET date_str == strip(str(date_value))
             parsed_date == TryFormats(date_str, 1)
         IN IF ~parsed_date.ok THEN NoDays ELSE Days(DeltaDays(now, parsed_date.v))

app_types == {"CCB", "AudioEye", "Paperform", "RSS/Social",
              "SiteSearch", "BookingTool", "IVR", "Apps"}

is_app_product(product_type) == product_type \in app_types

categorize_charge_frequency(charge_frequency) ==
    IF isna(charge_frequency) THEN "Unbekannt"
    ELSE LET freq_lower == lower(str(charge_frequency))
         IN IF Contains(freq_lower, "dudaone monthly") THEN "Lizenz"
            ELSE IF \E term \in {"ecom", "store"} : Contains(freq_lower, term) THEN "Shop"
            ELSE IF Contains(freq_lower, "cookiebot") THEN "CCB"
            ELSE IF Contains(freq_lower, "audioeye") THEN "AudioEye"
            ELSE IF Contains(freq_lower, "paperform") THEN "Paperform"
            ELSE IF Contains(freq_lower, "rss") \/ Contains(freq_lower, "social")
                 THEN "RSS/Social"
            ELSE IF Contains(freq_lower, "sitesearch") THEN "SiteSearch"
            ELSE IF Contains(freq_lower, "book like a boss") THEN "BookingTool"
            ELSE IF Contains(freq_lower, "ivr") THEN "IVR"
            ELSE "Apps"

-----------------------------------------------------------------------------
(* data_analyzer.py: the status-OK predicate *)

\* is_status_ok with the grace period ending a day early
is_status_ok_Under31(status, unpublication_date) ==
    IF isna(status) THEN FALSE
    ELSE LET status_str == lower(str(status))
         IN IF Contains(status_str, "website online") THEN TRUE
            ELSE IF (\E term \in {"offline", "gekündigt"} : Contains(status_str, term))
                    /\ Truthy(unpublication_date) /\ ~isna(unpublication_date)
                 THEN LET days_since_unpublish == days_since_date(unpublication_date)
                      IN ~days_since_unpublish.is_none /\ days_since_unpublish.days < 31
                 ELSE FALSE

is_status_ok(status, unpublication_date) ==
    IF isna(status) THEN FALSE
    ELSE LET status_str == lower(str(status))
         IN IF Contains(status_str, "website online") THEN TRUE
            ELSE IF (\E term \in {"offline", "gekündigt"} : Contains(status_str, term))
                    /\ Truthy(unpublication_date) /\ ~isna(unpublication_date)
                 THEN LET days_since_unpublish == days_since_date(unpublication_date)
                      IN ~days_since_unpublish.is_none /\ days_since_unpublish.days <= 31
                 ELSE FALSE

-----------------------------------------------------------------------------
(* Tables.  A table is the sequence of its rows; a row is a record of cells. *)

\* the positions at which the boolean mask is TRUE, in table order
RECURSIVE SelectIdx(_, _)
SelectIdx(mask, i) ==
    IF i > Len(mask) THEN <<>>
    ELSE (IF mask[i] THEN <<i>> ELSE <<>>) \o SelectIdx(mask, i + 1)

\* df[mask]: the rows at which the boolean mask is TRUE, in table order
Filter(df, mask) == LET sel == SelectIdx(mask, 1) IN [k \in 1..Len(sel) |-> df[sel[k]]]

\* mask.sum(), len(df[mask])
Count(mask) == Cardinality({i \in 1..Len(mask) : mask[i]})

-----------------------------------------------------------------------------
(* file_processor.py: load_duda_file *)

\* pd.to_numeric(errors='coerce') of one cell: [sign]digits[.digits], else NaN.
\* A number is kept as its sign, whole part and fractional digits.
NotNumeric == [numeric |-> FALSE]

to_numeric(cell) ==
    IF isna(cell) THEN NotNumeric
    ELSE LET t == strip(cell)
             neg == StartsWith(t, "-")
             u == IF neg \/ StartsWith(t, "+") THEN DropFirst(t, 1) ELSE t
             dots == {i \in 1..Len(u) : Char(u, i) = "."}
             dot == IF dots = {} THEN Len(u) + 1 ELSE CHOOSE i \in dots : TRUE
             whole == SubSeq(u, 1, dot - 1)
             frac == SubSeq(u, dot + 1, Len(u))
         IN IF Cardinality(dots) <= 1 /\ AllDigits(whole) /\ AllDigits(frac)
               /\ Len(whole) + Len(frac) >= 1
            THEN [numeric |-> TRUE, neg |-> neg, whole |-> ToInt(whole), frac |-> frac]
            ELSE NotNumeric

\* .fillna(0).astype(int): NaN becomes 0, a float is truncated towards zero
fillna0_astype_int(n) ==
    IF ~n.numeric THEN 0 ELSE IF n.neg THEN 0 - n.whole ELSE n.whole

LoadedRow(r) ==
    [r EXCEPT !.Site_Alias = str(r.Site_Alias),
              !.Should_Charge = fillna0_astype_int(to_numeric(r.Should_Charge))]

load_duda_file(raw) ==
    LET df == [i \in 1..Len(raw) |-> LoadedRow(raw[i])]
    IN Filter(df, [i \in 1..Len(df) |-> df[i].Should_Charge = 1])

-----------------------------------------------------------------------------
(* file_processor.py: load_crm_file *)

\* An uploaded export: the header as the sequence of column names, and the
\* rows as functions from column name to cell (NaN for an empty cell).
Raise(kind, message) == [ok |-> FALSE, kind |-> kind, error |-> message]
Loaded(df) == [ok |-> TRUE, df |-> df]

\* for col in df.columns: if <all words in col.lower()>: ...; break
RECURSIVE FirstColumn(_, _, _)
FirstColumn(columns, words, k) ==
    IF k > Len(columns) THEN None
    ELSE IF \A w \in words : Contains(lower(columns[k]), w) THEN columns[k]
    ELSE FirstColumn(columns, words, k + 1)

\* the id-column loop has no break: the last column with one of the exact
\* (lower-cased) names wins
RECURSIVE LastColumn(_, _, _)
LastColumn(columns, names, k) ==
    IF k = 0 THEN None
    ELSE IF /\ \A w \in {"duda", "site", "id"} : Contains(lower(columns[k]), w)
            /\ lower(columns[k]) \in names
         THEN columns[k]
    ELSE LastColumn(columns, names, k - 1)

domain_column_of(columns) == FirstColumn(columns, {"domain"}, 1)
landingpage_id_column_of(columns) ==
    LastColumn(columns, {"site-id-duda", "site_id_duda"}, Len(columns))
site_id_column_of(columns) ==
    LastColumn(columns, {"duda-site-id", "duda_site_id"}, Len(columns))
status_column_of(columns) == FirstColumn(columns, {"workflow", "status"}, 1)
project_column_of(columns) == FirstColumn(columns, {"projekt"}, 1)

\* result_df['Landingpage-ID'].astype(str).str.strip().replace('nan', '')
LandingpageCell(v) == LET s == strip(str(v)) IN IF s = "nan" THEN "" ELSE s

\* one row of result_df built from the export row (lines 216-236, 266)
StandardRow(row, site, status, domain, project, lp) ==
    [Site_ID_Duda    |-> strip(str(row[site])),
     Workflow_Status |-> strip(str(row[status])),
     Domain          |-> IF domain # None THEN row[domain] ELSE "",
     Projektname     |-> IF project # None THEN row[project] ELSE "Unbekannt",
     Landingpage_ID  |-> IF lp # None THEN LandingpageCell(row[lp]) ELSE ""]

\* new_row of the landing-page loop (lines 248-256)
LandingpageRow(row, status, domain, project, lp) ==
    [Site_ID_Duda    |-> strip(str(row[lp])),
     Workflow_Status |-> strip(str(row[status])),
     Domain          |-> IF domain # None THEN strip(str(row[domain])) ELSE "",
     Projektname     |-> IF project # None
                         THEN strip(str(row[project])) \o " (Landingpage)"
                         ELSE "Landingpage",
     Landingpage_ID  |-> strip(str(row[lp]))]

\* the test without the look-up among the standard ids
AddsLandingpageRow_Unchecked(rows, i, site, status, domain, project, lp) ==
    ~isna(rows[i][lp]) /\ strip(str(rows[i][lp])) \notin {"", "nan"}

\* pd.notna(landingpage_id) and the stripped id not in ['', 'nan'] and not in
\* standard_ids (the stripped non-NaN cells of the standard id column)
AddsLandingpageRow(rows, i, site, status, domain, project, lp) ==
    /\ ~isna(rows[i][lp])
    /\ strip(str(rows[i][lp])) \notin {"", "nan"}
    /\ \A j \in 1..Len(rows) :
          isna(rows[j][site]) \/ strip(str(rows[j][site])) # strip(str(rows[i][lp]))

CrmTable(rows, site, status, domain, project, lp) ==
    LET kept == Filter(rows, [i \in 1..Len(rows) |-> ~isna(rows[i][site])])
        result_df == [i \in 1..Len(kept) |->
                        StandardRow(kept[i], site, status, domain, project, lp)]
        added == IF lp = None THEN <<>>
                 ELSE Filter(rows, [i \in 1..Len(rows) |->
                        AddsLandingpageRow(rows, i, site, status, domain, project, lp)])
        landingpage_rows == [i \in 1..Len(added) |->
                        LandingpageRow(added[i], status, domain, project, lp)]
    IN result_df \o landingpage_rows

load_crm_file(file) ==
    LET columns == file.columns
        site    == site_id_column_of(columns)
        status  == status_column_of(columns)
    IN IF site = None
       THEN Raise("Exception", "Fehler beim Laden der CRM-Datei: "
                               \o "Keine Standard Duda-Site-ID Spalte gefunden")
       ELSE IF status = None
       THEN Raise("Exception", "Fehler beim Laden der CRM-Datei: "
                               \o "Keine Workflow-Status Spalte gefunden")
       ELSE Loaded(CrmTable(file.rows, site, status, domain_column_of(columns),
                            project_column_of(columns),
                            landingpage_id_column_of(columns)))

\* load_duda_file on an export given with its header: the required columns,
\* the optional date column (a row without it has no date: duda_row.get)
required_columns == {"Site Alias", "Site URL", "Charge Frequency", "Should Charge"}

ReadRow(columns, r) ==
    IF "Unpublication Date" \in columns THEN r
    ELSE [r EXCEPT !.Unpublication_Date = None]

\* the check asking for the alias, the frequency and the charge flag only
load_duda_export_UrlOptional(columns, raw) ==
    IF ~((required_columns \ {"Site URL"}) \subseteq columns)
    THEN Raise("Exception", "Fehler beim Laden der Duda-Datei: "
                            \o "Fehlende Spalten in Duda-Datei")
    ELSE Loaded(load_duda_file([i \in 1..Len(raw) |-> ReadRow(columns, raw[i])]))

load_duda_export(columns, raw) ==
    IF ~(required_columns \subseteq columns)
    THEN Raise("Exception", "Fehler beim Laden der Duda-Datei: "
                            \o "Fehlende Spalten in Duda-Datei")
    ELSE Loaded(load_duda_file([i \in 1..Len(raw) |-> ReadRow(columns, raw[i])]))

-----------------------------------------------------------------------------
(* utils.py: extract_domain *)

\* the first position of s at or after i whose character is in the set cs, else Len(s) + 1
RECURSIVE FindFirst(_, _, _)
FindFirst(s, cs, i) ==
    IF i > Len(s) \/ Char(s, i) \in cs THEN i ELSE FindFirst(s, cs, i + 1)

IsLetter(c) == c \in UpperSet \/ c \in LowerSet

\* urlparse(url).netloc: what follows "//" after the optional scheme, up to / ? or #
urlparse_netloc(url) ==
    LET colon == FindFirst(url, {":"}, 1)
        scheme == SubSeq(url, 1, colon - 1)
        has_scheme ==
            /\ colon <= Len(url)
            /\ scheme # "" /\ IsLetter(Char(scheme, 1))
            /\ \A i \in 1..Len(scheme) :
                   LET c == Char(scheme, i) IN IsLetter(c) \/ IsDigit(c) \/ c \in {"+", "-", "."}
        rest == IF has_scheme THEN DropFirst(url, colon) ELSE url
    IN IF StartsWith(rest, "//")
       THEN SubSeq(rest, 3, FindFirst(rest, {"/", "?", "#"}, 3) - 1)
       ELSE ""

extract_domain(url0) ==
    IF ~Truthy(url0) \/ url0 = "nan" THEN ""
    ELSE LET stripped == strip(str(url0))
             url == IF ~StartsWith(stripped, "http") THEN "https://" \o stripped ELSE stripped
             domain == lower(urlparse_netloc(url))
         IN IF StartsWith(domain, "www.") THEN DropFirst(domain, 4) ELSE domain

-----------------------------------------------------------------------------
(* file_processor.py: fix_scientific_notation_ids *)

\* str.contains(r'[eE][+-]', regex=True)
IsScientific(alias) ==
    \E i \in 1..(Len(alias) - 1) :
        Char(alias, i) \in {"e", "E"} /\ Char(alias, i + 1) \in {"+", "-"}

\* a Site URL cell that is neither NaN nor '' nor 'nan'
HasUrlCell(r) == ~isna(r.Site_URL) /\ r.Site_URL # "" /\ r.Site_URL # "nan"

\* crm_df['Domain'].astype(str).str.contains(<domain, dots escaped>, case=False)
DomainMatches(crm_df_, domain) ==
    Filter(crm_df_, [i \in 1..Len(crm_df_) |->
                        Contains(lower(str(crm_df_[i].Domain)), lower(domain))])

\* the loop body rewriting only the first row that carries the corrupted id
RepairRow_FirstOnly(st, row, crm_df_) ==
    LET site_alias_scientific == strip(str(row.Site_Alias))
        own_url == strip(str(row.Site_URL))
        product_type == categorize_charge_frequency(row.Charge_Frequency)
        same_scientific_id ==
            Filter(st.df, [i \in 1..Len(st.df) |->
                              st.df[i].Site_Alias = site_alias_scientific /\ HasUrlCell(st.df[i])])
        site_url ==
            IF is_app_product(product_type) /\ (own_url = "" \/ own_url = "nan")
               /\ same_scientific_id # <<>>
            THEN strip(str(same_scientific_id[1].Site_URL))
            ELSE own_url
        domain == extract_domain(site_url)
        crm_matches == DomainMatches(crm_df_, domain)
        correct_id == strip(str(crm_matches[1].Site_ID_Duda))
        renamed == [i \in 1..Len(st.df) |->
                      IF /\ st.df[i].Site_Alias = site_alias_scientific
                         /\ \A j \in 1..(i - 1) : st.df[j].Site_Alias # site_alias_scientific
                      THEN [st.df[i] EXCEPT !.Site_Alias = correct_id]
                      ELSE st.df[i]]
        filled == [i \in 1..Len(renamed) |->
                      IF renamed[i].Site_Alias = correct_id /\ ~HasUrlCell(renamed[i])
                      THEN [renamed[i] EXCEPT !.Site_URL = site_url]
                      ELSE renamed[i]]
    IN IF site_alias_scientific \in st.repaired THEN st
       ELSE IF site_url # "" /\ site_url # "nan" /\ Len(crm_matches) = 1
       THEN [df |-> filled, repaired |-> st.repaired \cup {site_alias_scientific}]
       ELSE st

\* the loop body rewriting the ids without filling in the missing URLs
RepairRow_NoBackfill(st, row, crm_df_) ==
    LET site_alias_scientific == strip(str(row.Site_Alias))
        own_url == strip(str(row.Site_URL))
        product_type == categorize_charge_frequency(row.Charge_Frequency)
        same_scientific_id ==
            Filter(st.df, [i \in 1..Len(st.df) |->
                              st.df[i].Site_Alias = site_alias_scientific /\ HasUrlCell(st.df[i])])
        site_url ==
            IF is_app_product(product_type) /\ (own_url = "" \/ own_url = "nan")
               /\ same_scientific_id # <<>>
            THEN strip(str(same_scientific_id[1].Site_URL))
            ELSE own_url
        domain == extract_domain(site_url)
        crm_matches == DomainMatches(crm_df_, domain)
        correct_id == strip(str(crm_matches[1].Site_ID_Duda))
        renamed == [i \in 1..Len(st.df) |->
                      IF st.df[i].Site_Alias = site_alias_scientific
                      THEN [st.df[i] EXCEPT !.Site_Alias = correct_id]
                      ELSE st.df[i]]
        filled == [i \in 1..Len(renamed) |->
                      IF renamed[i].Site_Alias = correct_id /\ ~HasUrlCell(renamed[i])
                      THEN [renamed[i] EXCEPT !.Site_URL = site_url]
                      ELSE renamed[i]]
    IN IF site_alias_scientific \in st.repaired THEN st
       ELSE IF site_url # "" /\ site_url # "nan" /\ Len(crm_matches) = 1
       THEN [df |-> renamed, repaired |-> st.repaired \cup {site_alias_scientific}]
       ELSE st

\* the loop body taking the first CRM entry when the domain search finds several
RepairRow_FirstMatch(st, row, crm_df_) ==
    LET site_alias_scientific == strip(str(row.Site_Alias))
        own_url == strip(str(row.Site_URL))
        product_type == categorize_charge_frequency(row.Charge_Frequency)
        same_scientific_id ==
            Filter(st.df, [i \in 1..Len(st.df) |->
                              st.df[i].Site_Alias = site_alias_scientific /\ HasUrlCell(st.df[i])])
        site_url ==
            IF is_app_product(product_type) /\ (own_url = "" \/ own_url = "nan")
               /\ same_scientific_id # <<>>
            THEN strip(str(same_scientific_id[1].Site_URL))
            ELSE own_url
        domain == extract_domain(site_url)
        crm_matches == DomainMatches(crm_df_, domain)
        correct_id == strip(str(crm_matches[1].Site_ID_Duda))
        renamed == [i \in 1..Len(st.df) |->
                      IF st.df[i].Site_Alias = site_alias_scientific
                      THEN [st.df[i] EXCEPT !.Site_Alias = correct_id]
                      ELSE st.df[i]]
        filled == [i \in 1..Len(renamed) |->
                      IF renamed[i].Site_Alias = correct_id /\ ~HasUrlCell(renamed[i])
                      THEN [renamed[i] EXCEPT !.Site_URL = site_url]
                      ELSE renamed[i]]
    IN IF site_alias_scientific \in st.repaired THEN st
       ELSE IF site_url # "" /\ site_url # "nan" /\ Len(crm_matches) >= 1
       THEN [df |-> filled, repaired |-> st.repaired \cup {site_alias_scientific}]
       ELSE st

\* the loop body writing the URL into every row of the repaired site
RepairRow_UrlOverwritten(st, row, crm_df_) ==
    LET site_alias_scientific == strip(str(row.Site_Alias))
        own_url == strip(str(row.Site_URL))
        product_type == categorize_charge_frequency(row.Charge_Frequency)
        same_scientific_id ==
            Filter(st.df, [i \in 1..Len(st.df) |->
                              st.df[i].Site_Alias = site_alias_scientific /\ HasUrlCell(st.df[i])])
        site_url ==
            IF is_app_product(product_type) /\ (own_url = "" \/ own_url = "nan")
               /\ same_scientific_id # <<>>
            THEN strip(str(same_scientific_id[1].Site_URL))
            ELSE own_url
        domain == extract_domain(site_url)
        crm_matches == DomainMatches(crm_df_, domain)
        correct_id == strip(str(crm_matches[1].Site_ID_Duda))
        renamed == [i \in 1..Len(st.df) |->
                      IF st.df[i].Site_Alias = site_alias_scientific
                      THEN [st.df[i] EXCEPT !.Site_Alias = correct_id]
                      ELSE st.df[i]]
        filled == [i \in 1..Len(renamed) |->
                      IF renamed[i].Site_Alias = correct_id
                      THEN [renamed[i] EXCEPT !.Site_URL = site_url]
                      ELSE renamed[i]]
    IN IF site_alias_scientific \in st.repaired THEN st
       ELSE IF site_url # "" /\ site_url # "nan" /\ Len(crm_matches) = 1
       THEN [df |-> filled, repaired |-> st.repaired \cup {site_alias_scientific}]
       ELSE st

\* the body of the loop for the problematic row `row` (a copy taken before the
\* loop); st = [df, repaired] is the table being rewritten and the ids done
RepairRow(st, row, crm_df_) ==
    LET site_alias_scientific == strip(str(row.Site_Alias))
        own_url == strip(str(row.Site_URL))
        product_type == categorize_charge_frequency(row.Charge_Frequency)
        same_scientific_id ==
            Filter(st.df, [i \in 1..Len(st.df) |->
                              st.df[i].Site_Alias = site_alias_scientific /\ HasUrlCell(st.df[i])])
        site_url ==
            IF is_app_product(product_type) /\ (own_url = "" \/ own_url = "nan")
               /\ same_scientific_id # <<>>
            THEN strip(str(same_scientific_id[1].Site_URL))
            ELSE own_url
        domain == extract_domain(site_url)
        crm_matches == DomainMatches(crm_df_, domain)
        correct_id == strip(str(crm_matches[1].Site_ID_Duda))
        renamed == [i \in 1..Len(st.df) |->
                      IF st.df[i].Site_Alias = site_alias_scientific
                      THEN [st.df[i] EXCEPT !.Site_Alias = correct_id]
                      ELSE st.df[i]]
        filled == [i \in 1..Len(renamed) |->
                      IF renamed[i].Site_Alias = correct_id /\ ~HasUrlCell(renamed[i])
                      THEN [renamed[i] EXCEPT !.Site_URL = site_url]
                      ELSE renamed[i]]
    IN IF site_alias_scientific \in st.repaired THEN st
       ELSE IF site_url # "" /\ site_url # "nan" /\ Len(crm_matches) = 1
       THEN [df |-> filled, repaired |-> st.repaired \cup {site_alias_scientific}]
       ELSE st

RECURSIVE RepairLoop(_, _, _, _)
RepairLoop(st, problematic_rows, crm_df_, k) ==
    IF k > Len(problematic_rows) THEN st
    ELSE RepairLoop(RepairRow(st, problematic_rows[k], crm_df_), problematic_rows, crm_df_, k + 1)

fix_scientific_notation_ids(duda_df_, crm_df_) ==
    LET scientific_mask == [i \in 1..Len(duda_df_) |-> IsScientific(str(duda_df_[i].Site_Alias))]
        problematic_rows == Filter(duda_df_, scientific_mask)
    IN IF Len(problematic_rows) = 0 THEN duda_df_
       ELSE RepairLoop([df |-> duda_df_, repaired |-> {}], problematic_rows, crm_df_, 1).df

-----------------------------------------------------------------------------
(* data_analyzer.py: DataAnalyzer *)

WithProdukttyp(r) ==
    [f \in DOMAIN r \cup {"Produkttyp"} |->
        IF f = "Produkttyp" THEN categorize_charge_frequency(r.Charge_Frequency) ELSE r[f]]

\* DataAnalyzer.__init__: the table the analyzer keeps as self.duda_df
DataAnalyzerInit(duda_df_, crm_df_) ==
    LET fixed == fix_scientific_notation_ids(duda_df_, crm_df_)
    IN [i \in 1..Len(fixed) |-> WithProdukttyp(fixed[i])]

\* a date cell that is missing: pd.isna(d) or str(d).strip() in ['', 'nan']
DateAbsent(d) == isna(d) \/ strip(str(d)) \in {"", "nan"}

\* days_since_date(d) if d else None
UnpublishTage(d) == IF Truthy(d) THEN days_since_date(d) ELSE NoDays

\* self.duda_df[(Site Alias == site_alias) & (Produkttyp == 'Lizenz')]
LicenseMatch(df, site_alias) ==
    Filter(df, [i \in 1..Len(df) |->
                  df[i].Site_Alias = site_alias /\ df[i].Produkttyp = "Lizenz"])

\* the matching entries, the last of the table first
CrmMatch_LastFirst(crm_df_, site_alias) ==
    LET found == Filter(crm_df_, [i \in 1..Len(crm_df_) |->
                                    crm_df_[i].Site_ID_Duda = site_alias])
    IN [k \in 1..Len(found) |-> found[Len(found) + 1 - k]]

\* self.crm_df[self.crm_df['Site-ID-Duda'] == site_alias]
CrmMatch(crm_df_, site_alias) ==
    Filter(crm_df_, [i \in 1..Len(crm_df_) |-> crm_df_[i].Site_ID_Duda = site_alias])

\* the date of the row itself, whatever the product
EffectiveDate_OwnOnly(df, duda_row) == duda_row.Unpublication_Date

\* the date the loop body of find_issues works with for duda_row
EffectiveDate(df, duda_row) ==
    LET site_alias == strip(str(duda_row.Site_Alias))
        own == duda_row.Unpublication_Date
        license_match == LicenseMatch(df, site_alias)
    IN IF is_app_product(duda_row.Produkttyp) /\ DateAbsent(own)
          /\ license_match # <<>>
          /\ ~DateAbsent(license_match[1].Unpublication_Date)
       THEN license_match[1].Unpublication_Date
       ELSE own

Issue(site_alias, duda_row, crm_status, projektname, problem_typ, tage) ==
    [Site_Alias |-> site_alias,
     Site_URL |-> duda_row.Site_URL,
     Produkttyp |-> duda_row.Produkttyp,
     Charge_Frequency |-> duda_row.Charge_Frequency,
     CRM_Status |-> crm_status,
     Projektname |-> projektname,
     Problem_Typ |-> problem_typ,
     Unpublish_Tage |-> tage]

\* the loop body labelling an app that is not OK like a licence or a shop
RowIssues_AppMismatch(df, crm_df_, duda_row) ==
    LET site_alias == strip(str(duda_row.Site_Alias))
        product_type == duda_row.Produkttyp
        unpublication_date == EffectiveDate(df, duda_row)
        crm_match == CrmMatch(crm_df_, site_alias)
        crm_row == crm_match[1]
        workflow_status == crm_row.Workflow_Status
        license_match == LicenseMatch(df, site_alias)
        license_unpublish == license_match[1].Unpublication_Date
        problem_reason == IF license_match # <<>> THEN "ohne Website online"
                          ELSE "keine zugehörige Lizenz gefunden"
    IN IF crm_match = <<>>
       THEN << Issue(site_alias, duda_row, "Nicht gefunden", "Nicht gefunden",
                     "Site nicht im CRM", UnpublishTage(unpublication_date)) >>
       ELSE IF is_status_ok(workflow_status, unpublication_date) THEN <<>>
       ELSE IF is_app_product(product_type)
       THEN IF license_match # <<>> /\ is_status_ok(workflow_status, license_unpublish)
            THEN <<>>
            ELSE << Issue(site_alias, duda_row, workflow_status, crm_row.Projektname,
                          "Abweichender Workflow-Status",
                          UnpublishTage(unpublication_date)) >>
       ELSE << Issue(site_alias, duda_row, workflow_status, crm_row.Projektname,
                     "Abweichender Workflow-Status", UnpublishTage(unpublication_date)) >>

\* the loop body exempting an app whenever a licence row exists
RowIssues_AnyLicense(df, crm_df_, duda_row) ==
    LET site_alias == strip(str(duda_row.Site_Alias))
        product_type == duda_row.Produkttyp
        unpublication_date == EffectiveDate(df, duda_row)
        crm_match == CrmMatch(crm_df_, site_alias)
        crm_row == crm_match[1]
        workflow_status == crm_row.Workflow_Status
        license_match == LicenseMatch(df, site_alias)
        license_unpublish == license_match[1].Unpublication_Date
        problem_reason == IF license_match # <<>> THEN "ohne Website online"
                          ELSE "keine zugehörige Lizenz gefunden"
    IN IF crm_match = <<>>
       THEN << Issue(site_alias, duda_row, "Nicht gefunden", "Nicht gefunden",
                     "Site nicht im CRM", UnpublishTage(unpublication_date)) >>
       ELSE IF is_status_ok(workflow_status, unpublication_date) THEN <<>>
       ELSE IF is_app_product(product_type)
       THEN IF license_match # <<>>
            THEN <<>>
            ELSE << Issue(site_alias, duda_row, workflow_status, crm_row.Projektname,
                          product_type \o " " \o problem_reason,
                          UnpublishTage(unpublication_date)) >>
       ELSE << Issue(site_alias, duda_row, workflow_status, crm_row.Projektname,
                     "Abweichender Workflow-Status", UnpublishTage(unpublication_date)) >>

\* the loop body passing over an app whose site is not in the CRM
RowIssues_UnmatchedAppSkipped(df, crm_df_, duda_row) ==
    LET site_alias == strip(str(duda_row.Site_Alias))
        product_type == duda_row.Produkttyp
        unpublication_date == EffectiveDate(df, duda_row)
        crm_match == CrmMatch(crm_df_, site_alias)
        crm_row == crm_match[1]
        workflow_status == crm_row.Workflow_Status
        license_match == LicenseMatch(df, site_alias)
        license_unpublish == license_match[1].Unpublication_Date
        problem_reason == IF license_match # <<>> THEN "ohne Website online"
                          ELSE "keine zugehörige Lizenz gefunden"
    IN IF crm_match = <<>>
       THEN IF is_app_product(product_type) THEN <<>>
            ELSE << Issue(site_alias, duda_row, "Nicht gefunden", "Nicht gefunden",
                          "Site nicht im CRM", UnpublishTage(unpublication_date)) >>
       ELSE IF is_status_ok(workflow_status, unpublication_date) THEN <<>>
       ELSE IF is_app_product(product_type)
       THEN IF license_match # <<>> /\ is_status_ok(workflow_status, license_unpublish)
            THEN <<>>
            ELSE << Issue(site_alias, duda_row, workflow_status, crm_row.Projektname,
                          product_type \o " " \o problem_reason,
                          UnpublishTage(unpublication_date)) >>
       ELSE << Issue(site_alias, duda_row, workflow_status, crm_row.Projektname,
                     "Abweichender Workflow-Status", UnpublishTage(unpublication_date)) >>

\* the loop body testing the status without the unpublication date
RowIssues_DateIgnored(df, crm_df_, duda_row) ==
    LET site_alias == strip(str(duda_row.Site_Alias))
        product_type == duda_row.Produkttyp
        unpublication_date == EffectiveDate(df, duda_row)
        crm_match == CrmMatch(crm_df_, site_alias)
        crm_row == crm_match[1]
        workflow_status == crm_row.Workflow_Status
        license_match == LicenseMatch(df, site_alias)
        license_unpublish == license_match[1].Unpublication_Date
        problem_reason == IF license_match # <<>> THEN "ohne Website online"
                          ELSE "keine zugehörige Lizenz gefunden"
    IN IF crm_match = <<>>
       THEN << Issue(site_alias, duda_row, "Nicht gefunden", "Nicht gefunden",
                     "Site nicht im CRM", UnpublishTage(unpublication_date)) >>
       ELSE IF is_status_ok(workflow_status, NaN) THEN <<>>
       ELSE IF is_app_product(product_type)
       THEN IF license_match # <<>> /\ is_status_ok(workflow_status, license_unpublish)
            THEN <<>>
            ELSE << Issue(site_alias, duda_row, workflow_status, crm_row.Projektname,
                          product_type \o " " \o problem_reason,
                          UnpublishTage(unpublication_date)) >>
       ELSE << Issue(site_alias, duda_row, workflow_status, crm_row.Projektname,
                     "Abweichender Workflow-Status", UnpublishTage(unpublication_date)) >>

\* the loop body reporting a status mismatch for licences only
RowIssues_LicenceOnly(df, crm_df_, duda_row) ==
    LET site_alias == strip(str(duda_row.Site_Alias))
        product_type == duda_row.Produkttyp
        unpublication_date == EffectiveDate(df, duda_row)
        crm_match == CrmMatch(crm_df_, site_alias)
        crm_row == crm_match[1]
        workflow_status == crm_row.Workflow_Status
        license_match == LicenseMatch(df, site_alias)
        license_unpublish == license_match[1].Unpublication_Date
        problem_reason == IF license_match # <<>> THEN "ohne Website online"
                          ELSE "keine zugehörige Lizenz gefunden"
    IN IF crm_match = <<>>
       THEN << Issue(site_alias, duda_row, "Nicht gefunden", "Nicht gefunden",
                     "Site nicht im CRM", UnpublishTage(unpublication_date)) >>
       ELSE IF is_status_ok(workflow_status, unpublication_date) THEN <<>>
       ELSE IF is_app_product(product_type)
       THEN IF license_match # <<>> /\ is_status_ok(workflow_status, license_unpublish)
            THEN <<>>
            ELSE << Issue(site_alias, duda_row, workflow_status, crm_row.Projektname,
                          product_type \o " " \o problem_reason,
                          UnpublishTage(unpublication_date)) >>
       ELSE IF product_type = "Lizenz"
            THEN << Issue(site_alias, duda_row, workflow_status, crm_row.Projektname,
                          "Abweichender Workflow-Status", UnpublishTage(unpublication_date)) >>
            ELSE <<>>

\* the body of the loop of find_issues for duda_row: the issues it appends
RowIssues(df, crm_df_, duda_row) ==
    LET site_alias == strip(str(duda_row.Site_Alias))
        product_type == duda_row.Produkttyp
        unpublication_date == EffectiveDate(df, duda_row)
        crm_match == CrmMatch(crm_df_, site_alias)
        crm_row == crm_match[1]
        workflow_status == crm_row.Workflow_Status
        license_match == LicenseMatch(df, site_alias)
        license_unpublish == license_match[1].Unpublication_Date
        problem_reason == IF license_match # <<>> THEN "ohne Website online"
                          ELSE "keine zugehörige Lizenz gefunden"
    IN IF crm_match = <<>>
       THEN << Issue(site_alias, duda_row, "Nicht gefunden", "Nicht gefunden",
                     "Site nicht im CRM", UnpublishTage(unpublication_date)) >>
       ELSE IF is_status_ok(workflow_status, unpublication_date) THEN <<>>
       ELSE IF is_app_product(product_type)
       THEN IF license_match # <<>> /\ is_status_ok(workflow_status, license_unpublish)
            THEN <<>>
            ELSE << Issue(site_alias, duda_row, workflow_status, crm_row.Projektname,
                          product_type \o " " \o problem_reason,
                          UnpublishTage(unpublication_date)) >>
       ELSE << Issue(site_alias, duda_row, workflow_status, crm_row.Projektname,
                     "Abweichender Workflow-Status", UnpublishTage(unpublication_date)) >>

\* the loop appending the issue of an app a second time
RECURSIVE FindIssuesFrom_AppTwice(_, _, _)
FindIssuesFrom_AppTwice(df, crm_df_, i) ==
    IF i > Len(df) THEN <<>>
    ELSE RowIssues(df, crm_df_, df[i])
         \o (IF is_app_product(df[i].Produkttyp)
             THEN RowIssues(df, crm_df_, df[i]) ELSE <<>>)
         \o FindIssuesFrom_AppTwice(df, crm_df_, i + 1)

RECURSIVE FindIssuesFrom(_, _, _)
FindIssuesFrom(df, crm_df_, i) ==
    IF i > Len(df) THEN <<>>
    ELSE RowIssues(df, crm_df_, df[i]) \o FindIssuesFrom(df, crm_df_, i + 1)

\* DataAnalyzer.find_issues
find_issues(df, crm_df_) == FindIssuesFrom(df, crm_df_, 1)

\* the summary with each type's ok computed from the count of all issues
Summary_AllIssues(df, issues_df) ==
    LET total_charged == Len(df)
        issues_count == Len(issues_df)
        ok_count == total_charged - issues_count
        unique == {df[i].Produkttyp : i \in 1..Len(df)}
        product_breakdown ==
            [product_type \in unique |->
                LET product_total ==
                        Count([i \in 1..Len(df) |-> df[i].Produkttyp = product_type])
                    product_issues ==
                        IF issues_df # <<>>
                        THEN Count([i \in 1..Len(issues_df) |->
                                       issues_df[i].Produkttyp = product_type])
                        ELSE 0
                    product_ok == product_total - issues_count
                IN [total |-> product_total, ok |-> product_ok, issues |-> product_issues]]
    IN [total_charged |-> total_charged,
        ok_count |-> ok_count,
        issues_count |-> issues_count,
        product_breakdown |-> product_breakdown]

\* the summary get_summary builds from the table and issues_df = self.find_issues()
Summary(df, issues_df) ==
    LET total_charged == Len(df)
        issues_count == Len(issues_df)
        ok_count == total_charged - issues_count
        unique == {df[i].Produkttyp : i \in 1..Len(df)}
        product_breakdown ==
            [product_type \in unique |->
                LET product_total ==
                        Count([i \in 1..Len(df) |-> df[i].Produkttyp = product_type])
                    product_issues ==
                        IF issues_df # <<>>
                        THEN Count([i \in 1..Len(issues_df) |->
                                       issues_df[i].Produkttyp = product_type])
                        ELSE 0
                    product_ok == product_total - product_issues
                IN [total |-> product_total, ok |-> product_ok, issues |-> product_issues]]
    IN [total_charged |-> total_charged,
        ok_count |-> ok_count,
        issues_count |-> issues_count,
        product_breakdown |-> product_breakdown]

\* DataAnalyzer.get_summary
get_summary(df, crm_df_) == Summary(df, find_issues(df, crm_df_))

-----------------------------------------------------------------------------
(* api_verifier.py: DudaAPIVerifier *)

\* a verifier that was not constructed or has not begun to verify
VerifierIdle ==
    /\ api_username = None /\ api_password = None /\ api_available = FALSE
    /\ idx = 0 /\ verified_issues = <<>> /\ false_positives = <<>> /\ api_errors = <<>>
    /\ api_calls_made = 0 /\ requests = <<>> /\ remote = {}

\* __init__: bool(self.api_username and self.api_password); without a "duda"
\* section in the secrets both are None
CredentialsAvailable(username, password) == Truthy(username) /\ Truthy(password)

\* A key that a JSON object does not have; dict.get(key, default)
Missing == "<missing>"
Get(d, key, default) == IF d[key] = Missing THEN default ELSE d[key]

\* What requests.get comes back with: an exception it raises (None if it returns),
\* and of a response its status code and its JSON body
Raised(exc) == [raises |-> exc, status_code |-> 0, json |-> None]
Response(status_code, json) == [raises |-> None, status_code |-> status_code, json |-> json]

\* a Python value that is either None or a list
NoList == [is_none |-> TRUE]
List(l) == [is_none |-> FALSE, list |-> l]

\* the activities of the response that get_publish_history keeps
RECURSIVE PublishActivities(_, _)
PublishActivities(activities, k) ==
    IF k > Len(activities) THEN <<>>
    ELSE LET activity == activities[k]
             activity_type == lower(Get(activity, "activity_type", ""))
         IN IF \E term \in {"publish", "unpublish"} : Contains(activity_type, term)
            THEN << [type |-> activity_type, date |-> Get(activity, "date", None)] >>
                 \o PublishActivities(activities, k + 1)
            ELSE PublishActivities(activities, k + 1)

\* get_publish_history; an activity whose activity_type is null makes .lower()
\* raise, which the function catches.  Of an activity the keys 'user' and
\* 'description' are left out: nothing reads them
get_publish_history(site_id, history_response) ==
    IF ~api_available THEN NoList
    ELSE IF history_response.raises # None THEN NoList
    ELSE IF history_response.status_code = 200
         THEN LET activities == history_response.json
              IN IF \E k \in 1..Len(activities) : activities[k].activity_type = None
                 THEN NoList
                 ELSE LET publish_activities == PublishActivities(activities, 1)
                      IN List(SubSeq(publish_activities, 1,
                                     IF Len(publish_activities) < 10
                                     THEN Len(publish_activities) ELSE 10))
    ELSE NoList

\* _interpret_error_code, for the codes get_site_status passes to it
\* (403 and 404 are answered before)
_interpret_error_code(status_code) ==
    CASE status_code = 400 -> "Bad Request - Die Anfrage ist fehlerhaft formatiert"
      [] status_code = 401 -> "Unauthorized - API Credentials sind ungültig oder fehlen"
      [] status_code = 429 -> "Too Many Requests - Rate Limit erreicht, bitte warten"
      [] status_code = 500 -> "Internal Server Error - Duda Server Problem"
      [] status_code = 502 -> "Bad Gateway - Duda Service temporär nicht verfügbar"
      [] status_code = 503 -> "Service Unavailable - Duda API ist temporär offline"
      [] OTHER -> "HTTP " \o ToString(status_code) \o " - Unbekannter Fehler"

\* None where a dict is expected: the result of get_site_status when the API
\* is not available, the result of a call that has not returned
NoResult == [is_none |-> TRUE]

\* the query failing as a whole when the activity history cannot be read
get_site_status_HistoryRequired(site_id, response, history_response) ==
    IF ~api_available THEN NoResult
    ELSE IF response.raises = "Timeout" THEN [error |-> "Timeout", api_response_code |-> 408]
    ELSE IF response.raises # None THEN [error |-> response.raises, api_response_code |-> 500]
    ELSE IF response.status_code = 200 /\ get_publish_history(site_id, history_response).is_none
         THEN [error |-> "Aktivitäten nicht abrufbar", api_response_code |-> 500]
    ELSE IF response.status_code = 200
         THEN LET data == response.json
              IN [is_published |-> (Get(data, "publish_status", None) = "PUBLISHED"),
                  last_published |-> Get(data, "last_published_date", None),
                  unpublication_date |-> Get(data, "unpublication_date", None),
                  publish_history |-> get_publish_history(site_id, history_response),
                  site_domain |-> Get(data, "site_domain", ""),
                  api_response_code |-> response.status_code]
    ELSE IF response.status_code = 404
         THEN [error |-> "Site nicht gefunden", api_response_code |-> 404,
               is_published |-> FALSE]
    ELSE IF response.status_code = 403
         THEN [error |-> "Zugriff verweigert - keine Berechtigung für diese Site",
               api_response_code |-> 403, is_published |-> FALSE,
               details |-> "Site gehört möglicherweise einem anderen Account"]
    ELSE [error |-> "API Error: " \o ToString(response.status_code),
          api_response_code |-> response.status_code, is_published |-> FALSE,
          details |-> _interpret_error_code(response.status_code)]

\* get_site_status: api_result for the response to the status query and, after
\* a 200, the response to the history query.  Of the result the keys that
\* verify_issues and analyze_api_result read are kept
get_site_status(site_id, response, history_response) ==
    IF ~api_available THEN NoResult
    ELSE IF response.raises = "Timeout" THEN [error |-> "Timeout", api_response_code |-> 408]
    ELSE IF response.raises # None THEN [error |-> response.raises, api_response_code |-> 500]
    ELSE IF response.status_code = 200
         THEN LET data == response.json
              IN [is_published |-> (Get(data, "publish_status", None) = "PUBLISHED"),
                  last_published |-> Get(data, "last_published_date", None),
                  unpublication_date |-> Get(data, "unpublication_date", None),
                  publish_history |-> get_publish_history(site_id, history_response),
                  site_domain |-> Get(data, "site_domain", ""),
                  api_response_code |-> response.status_code]
    ELSE IF response.status_code = 404
         THEN [error |-> "Site nicht gefunden", api_response_code |-> 404,
               is_published |-> FALSE]
    ELSE IF response.status_code = 403
         THEN [error |-> "Zugriff verweigert - keine Berechtigung für diese Site",
               api_response_code |-> 403, is_published |-> FALSE,
               details |-> "Site gehört möglicherweise einem anderen Account"]
    ELSE [error |-> "API Error: " \o ToString(response.status_code),
          api_response_code |-> response.status_code, is_published |-> FALSE,
          details |-> _interpret_error_code(response.status_code)]

\* 'key' in api_result, api_result.get(key, default)
HasKey(d, key) == key \in DOMAIN d
GetKey(d, key, default) == IF key \in DOMAIN d THEN d[key] ELSE default

\* the days the loop over publish_history ends with: those of the first
\* activity, in the order of the list, that is an unpublish, has a date and
\* whose date days_since_date can read
RECURSIVE HistoryDays(_, _)
HistoryDays(publish_history, k) ==
    IF k > Len(publish_history) THEN NoDays
    ELSE LET activity == publish_history[k]
         IN IF Contains(lower(activity.type), "unpublish") /\ Truthy(activity.date)
               /\ ~days_since_date(activity.date).is_none
            THEN days_since_date(activity.date)
            ELSE HistoryDays(publish_history, k + 1)

\* days_offline of analyze_api_result, for a site that is not published
DaysOffline(api_result) ==
    LET unpublish_date == api_result.unpublication_date
        publish_history == api_result.publish_history
    IN IF days_since_date(unpublish_date).is_none
          /\ ~publish_history.is_none /\ publish_history.list # <<>>
       THEN HistoryDays(publish_history.list, 1)
       ELSE days_since_date(unpublish_date)

\* the rule clearing a site only when it is offline for less than 31 days
AnalysisOffline_Under31(days_offline) ==
    IF ~days_offline.is_none /\ days_offline.days < 31
    THEN [classification |-> "false_positive",
          reason |-> "Site offline seit " \o ToString(days_offline.days)
                     \o " Tagen (<=31 Tage = Kalendermonat-Regel)",
          recommendation |->
              "Verrechnung berechtigt - im aktuellen Abrechnungsmonat offline gegangen"]
    ELSE LET offline_info == IF ~days_offline.is_none
                             THEN "seit " \o ToString(days_offline.days) \o " Tagen"
                             ELSE "Offline-Datum unbekannt"
         IN [classification |-> "confirmed_issue",
             reason |-> "Site ist offline " \o offline_info,
             recommendation |->
                 "Manuelle Kontrolle - möglicherweise nicht berechtigt verrechnet"]

\* the rule with a lower bound: a date ahead of now is not within grace
AnalysisOffline_NotNegative(days_offline) ==
    IF ~days_offline.is_none /\ days_offline.days >= 0 /\ days_offline.days <= 31
    THEN [classification |-> "false_positive",
          reason |-> "Site offline seit " \o ToString(days_offline.days)
                     \o " Tagen (<=31 Tage = Kalendermonat-Regel)",
          recommendation |->
              "Verrechnung berechtigt - im aktuellen Abrechnungsmonat offline gegangen"]
    ELSE LET offline_info == IF ~days_offline.is_none
                             THEN "seit " \o ToString(days_offline.days) \o " Tagen"
                             ELSE "Offline-Datum unbekannt"
         IN [classification |-> "confirmed_issue",
             reason |-> "Site ist offline " \o offline_info,
             recommendation |->
                 "Manuelle Kontrolle - möglicherweise nicht berechtigt verrechnet"]

\* the calendar-month rule of analyze_api_result; the sign for "at most" in
\* the reason is written <= here
AnalysisOffline(days_offline) ==
    IF ~days_offline.is_none /\ days_offline.days <= 31
    THEN [classification |-> "false_positive",
          reason |-> "Site offline seit " \o ToString(days_offline.days)
                     \o " Tagen (<=31 Tage = Kalendermonat-Regel)",
          recommendation |->
              "Verrechnung berechtigt - im aktuellen Abrechnungsmonat offline gegangen"]
    ELSE LET offline_info == IF ~days_offline.is_none
                             THEN "seit " \o ToString(days_offline.days) \o " Tagen"
                             ELSE "Offline-Datum unbekannt"
         IN [classification |-> "confirmed_issue",
             reason |-> "Site ist offline " \o offline_info,
             recommendation |->
                 "Manuelle Kontrolle - möglicherweise nicht berechtigt verrechnet"]

\* the analysis without the test for a failed query: the result of a failed
\* query says is_published False and has no date
analyze_api_result_ErrorUnchecked(site_id, api_result, original_issue) ==
    IF GetKey(api_result, "is_published", FALSE)
    THEN [classification |-> "false_positive",
          reason |-> "Site ist tatsächlich online und erreichbar",
          recommendation |->
              "Verrechnung berechtigt - CRM Status prüfen und aktualisieren"]
    ELSE AnalysisOffline(NoDays)

analyze_api_result(site_id, api_result, original_issue) ==
    IF HasKey(api_result, "is_none") \/ HasKey(api_result, "error")
    THEN [classification |-> "api_error",
          reason |-> IF HasKey(api_result, "is_none") THEN "API nicht verfügbar"
                     ELSE api_result.error,
          recommendation |-> "Manuelle Kontrolle erforderlich",
          details |-> IF HasKey(api_result, "is_none") THEN ""
                      ELSE GetKey(api_result, "details", "")]
    ELSE IF api_result.is_published
         THEN [classification |-> "false_positive",
               reason |-> "Site ist tatsächlich online und erreichbar",
               recommendation |->
                   "Verrechnung berechtigt - CRM Status prüfen und aktualisieren"]
    ELSE AnalysisOffline(DaysOffline(api_result))

\* a cell that holds a Python bool
PyBool(b) == IF b THEN "True" ELSE "False"

\* a Series with the entries of extra set
Extend(r, extra) ==
    [f \in DOMAIN r \cup DOMAIN extra |-> IF f \in DOMAIN extra THEN extra[f] ELSE r[f]]

\* enriched_issue of verify_issues: a copy of the issue, which keeps its index
\* label as its name, with the API columns
Enriched(issue, name, api_result, analysis) ==
    Extend(issue,
           IF ~HasKey(api_result, "is_none") /\ ~HasKey(api_result, "error")
           THEN [name |-> name,
                 API_Published |-> PyBool(api_result.is_published),
                 API_Last_Published |-> api_result.last_published,
                 API_Unpublish_Date |-> api_result.unpublication_date,
                 API_Site_Domain |-> api_result.site_domain,
                 API_Analysis |-> analysis.reason,
                 API_Recommendation |-> analysis.recommendation]
           ELSE [name |-> name,
                 API_Published |-> "ERROR",
                 API_Last_Published |-> "",
                 API_Unpublish_Date |-> "",
                 API_Site_Domain |-> "",
                 API_Error_Details |-> IF HasKey(api_result, "is_none") THEN ""
                                       ELSE GetKey(api_result, "details", ""),
                 API_Analysis |-> analysis.reason,
                 API_Recommendation |-> analysis.recommendation])

\* the three lists of verify_issues
Lists(v, f, e) == [verified_issues |-> v, false_positives |-> f, api_errors |-> e]

\* the classification step keeping an issue whose query failed only in api_errors
Classify_ErrorsDropped(lists, enriched_issue, classification) ==
    IF classification = "false_positive"
    THEN Lists(lists.verified_issues, Append(lists.false_positives, enriched_issue),
               lists.api_errors)
    ELSE IF classification = "api_error"
    THEN Lists(lists.verified_issues, lists.false_positives,
               Append(lists.api_errors, enriched_issue))
    ELSE Lists(Append(lists.verified_issues, enriched_issue), lists.false_positives,
               lists.api_errors)

\* the classification step of the loop
Classify(lists, enriched_issue, classification) ==
    IF classification = "false_positive"
    THEN Lists(lists.verified_issues, Append(lists.false_positives, enriched_issue),
               lists.api_errors)
    ELSE IF classification = "api_error"
    THEN Lists(Append(lists.verified_issues, enriched_issue), lists.false_positives,
               Append(lists.api_errors, enriched_issue))
    ELSE Lists(Append(lists.verified_issues, enriched_issue), lists.false_positives,
               lists.api_errors)

\* pd.DataFrame(rows) of a list of Series: the columns are those of all the
\* rows, a row has NaN in a column it has no entry for
Columns(rows) == UNION {DOMAIN rows[k] : k \in 1..Len(rows)}
DataFrame(rows) ==
    [k \in 1..Len(rows) |->
        [c \in Columns(rows) |-> IF c \in DOMAIN rows[k] THEN rows[k][c] ELSE NaN]]

\* the guard looking only at the table of issues
PassesThrough_EmptyOnly == issues = <<>>

\* the guard of verify_issues
PassesThrough == ~api_available \/ issues = <<>>

\* the requests of a get_site_status that sends the status query once more
\* when it failed
Sent_RetryOnce(site_id, name, response) ==
    IF ~api_available THEN <<>>
    ELSE IF response.raises = None /\ response.status_code = 200
    THEN << [query |-> "status", site_id |-> site_id, name |-> name],
            [query |-> "activities", site_id |-> site_id, name |-> name] >>
    ELSE << [query |-> "status", site_id |-> site_id, name |-> name],
            [query |-> "status", site_id |-> site_id, name |-> name] >>

\* the requests get_site_status sends for a site: the status query and, after
\* a 200, the history query
Sent(site_id, name, response) ==
    IF ~api_available THEN <<>>
    ELSE << [query |-> "status", site_id |-> site_id, name |-> name] >>
         \o IF response.raises = None /\ response.status_code = 200
            THEN << [query |-> "activities", site_id |-> site_id, name |-> name] >>
            ELSE <<>>

-----------------------------------------------------------------------------
(* app.py: ReportGenerator.generate_csv_report and the report of display_results *)

\* api_results of display_results: None, or the tallies of the stored results
NoTallies == [is_none |-> TRUE]
Tallies(api_calls, fps, errs) ==
    [is_none |-> FALSE, api_calls |-> api_calls, false_positives |-> fps,
     api_errors |-> errs]

VerificationDone(state) == GetKey(state, "api_verification_done", FALSE)

ApiResults(state) ==
    IF VerificationDone(state)
    THEN Tallies(Len(GetKey(state, "verified_issues", <<>>))
                    + Len(GetKey(state, "false_positives", <<>>)),
                 Len(GetKey(state, "false_positives", <<>>)),
                 Len(GetKey(state, "api_errors", <<>>)))
    ELSE NoTallies

\* the report: the header lines taken from the summary, the three lines of
\* the API tallies when api_results is given, and the issue rows
generate_csv_report(issues_df, summary_, api_results) ==
    [is_none |-> FALSE,
     total_charged |-> summary_.total_charged,
     ok_count |-> summary_.ok_count,
     issues_count |-> summary_.issues_count,
     api_results |-> api_results,
     product_breakdown |-> summary_.product_breakdown,
     rows |-> issues_df]

\* st.session_state after the four assignments that follow verify_issues
Stored(state, verified, fps, errs) ==
    [key \in DOMAIN state \cup {"verified_issues", "false_positives", "api_errors",
                                "api_verification_done"} |->
        IF key = "verified_issues" THEN verified
        ELSE IF key = "false_positives" THEN fps
        ELSE IF key = "api_errors" THEN errs
        ELSE TRUE]

\* the issues display_results goes on with when the button was not pressed:
\* the stored ones only in the branch taken without API credentials
ShownIssues(issues_, available, state) ==
    IF ~available /\ VerificationDone(state)
    THEN GetKey(state, "verified_issues", issues_)
    ELSE issues_

-----------------------------------------------------------------------------
(* Values the inputs are drawn from *)

DateTime(Y, m, d, H, M, S) == [Y |-> Y, m |-> m, d |-> d, H |-> H, M |-> M, S |-> S, f |-> 0]

Idle == [fn |-> "none"]

\* all tables of at most n rows drawn from the set rows
Tables(rows, n) == UNION {[1..k -> rows] : k \in 0..n}

RawRows(aliases, urls, freqs, charges, dates) ==
    [Site_Alias : aliases, Site_URL : urls, Charge_Frequency : freqs,
     Should_Charge : charges, Unpublication_Date : dates]

CrmRows(ids, statuses, domains) ==
    [Site_ID_Duda : ids, Workflow_Status : statuses, Domain : domains,
     Projektname : {"Projekt"}]

-----------------------------------------------------------------------------
(* One run of main(): load, analyse, find the issues, summarise *)

LoadDuda ==
    /\ pc = "upload"
    /\ duda_df' = load_duda_file(duda_raw)
    /\ pc' = "loaded"
    /\ UNCHANGED <<duda_raw, crm_df, now, issues, summary, args, ret>>
    /\ UNCHANGED verifier_vars
    /\ UNCHANGED display_vars

Analyze ==
    /\ pc = "loaded"
    /\ duda_df' = DataAnalyzerInit(duda_df, crm_df)
    /\ pc' = "analyzed"
    /\ UNCHANGED <<duda_raw, crm_df, now, issues, summary, args, ret>>
    /\ UNCHANGED verifier_vars
    /\ UNCHANGED display_vars

FindIssues ==
    /\ pc = "analyzed"
    /\ issues' = find_issues(duda_df, crm_df)
    /\ pc' = "issues"
    /\ UNCHANGED <<duda_raw, duda_df, crm_df, now, summary, args, ret>>
    /\ UNCHANGED verifier_vars
    /\ UNCHANGED display_vars

GetSummary ==
    /\ pc = "issues"
    /\ summary' = get_summary(duda_df, crm_df)
    /\ pc' = "done"
    /\ UNCHANGED <<duda_raw, duda_df, crm_df, now, issues, args, ret>>
    /\ UNCHANGED verifier_vars
    /\ UNCHANGED display_vars

Next == LoadDuda \/ Analyze \/ FindIssues \/ GetSummary

InitRun(raws, maxRows, crms, maxCrm, nows) ==
    /\ pc = "upload"
    /\ duda_raw \in Tables(raws, maxRows)
    /\ crm_df \in Tables(crms, maxCrm)
    /\ now \in nows
    /\ duda_df = <<>> /\ issues = <<>> /\ summary = None
    /\ args = Idle /\ ret = None
    /\ VerifierIdle
    /\ DisplayIdle

(* The policy engine.  The first site is billed for any product, with or    *)
(* without an unpublication date, and may be in the CRM; the second site is *)
(* billed for a licence or an app and is not in the CRM.                    *)

MaxRows == 2
MaxCrm == 1

Site1 == "63609f38"
Site2 == "abc123de"
License == "DudaOne Monthly"
Shop == "Duda eCom Store"
Cookiebot == "Cookiebot Pro monthly"
DateOld == "2024-06-01"
DateRecent == "13.07.2024"
Today == DateTime(2024, 8, 1, 9, 0, 0)

PolicyRows ==
    RawRows({Site1}, {NaN}, {License, Shop, Cookiebot}, {"1"}, {NaN, DateOld, DateRecent})
    \cup RawRows({Site2}, {NaN}, {License, Cookiebot}, {"1"}, {DateRecent})

PolicyCrm == CrmRows({Site1}, {"Website online", "gekündigt", "In Bearbeitung"}, {""})

Init == InitRun(PolicyRows, MaxRows, PolicyCrm, MaxCrm, {Today})

Spec == Init /\ [][Next]_vars

(* Billed items of one site with several licence rows *)

MaxSiblings == 3

SiblingRows ==
    RawRows({Site1}, {NaN}, {License, Cookiebot}, {"1"}, {NaN, DateOld, DateRecent})

InitSiblings ==
    InitRun(SiblingRows, MaxSiblings, CrmRows({Site1}, {"Website online", "gekündigt"}, {""}),
            1, {Today})

SpecSiblings == InitSiblings /\ [][Next]_vars

(* The billing export with any Should Charge cell *)

MaxLoadRows == 2

ChargeCells == {"1", "0", "1.0", "1.5", "2", "-1", "x", NaN}

LoadRows == RawRows({Site1}, {NaN}, {License}, ChargeCells, {NaN})

InitLoad ==
    InitRun(LoadRows, MaxLoadRows, CrmRows({Site1}, {"Website online", "In Bearbeitung"}, {""}),
            1, {Today})

SpecLoad == InitLoad /\ [][Next]_vars

-----------------------------------------------------------------------------
(* is_status_ok called on its own *)

StatusValues ==
    {NaN, "nan", "Website online", "WEBSITE ONLINE (Relaunch)", "Offline",
     "Kunde gekündigt", "In Bearbeitung"}

DateValues ==
    {NaN, None, "", "bald", "2024-02-30",
     "2024-06-01", "2024-05-31", "31.05.2024 11:00:00", "05/31/2024 09:00:00",
     "2024-05-31T08:00:00.000Z", "2024-06-01T23:30:00Z", " 01.06.2024 ", "2024-08-15"}

StatusNows == {DateTime(2024, 7, 2, 10, 0, 0), DateTime(2024, 7, 3, 0, 0, 0)}

InitStatus ==
    /\ pc = "call"
    /\ args \in [fn : {"is_status_ok"}, status : StatusValues, unpublication_date : DateValues]
    /\ now \in StatusNows
    /\ ret = None
    /\ duda_raw = <<>> /\ duda_df = <<>> /\ crm_df = <<>>
    /\ issues = <<>> /\ summary = None
    /\ VerifierIdle
    /\ DisplayIdle

CallIsStatusOk ==
    /\ pc = "call"
    /\ args.fn = "is_status_ok"
    /\ ret' = is_status_ok(args.status, args.unpublication_date)
    /\ pc' = "returned"
    /\ UNCHANGED <<duda_raw, duda_df, crm_df, now, issues, summary, args>>
    /\ UNCHANGED verifier_vars
    /\ UNCHANGED display_vars

NextStatus == CallIsStatusOk

SpecStatus == InitStatus /\ [][NextStatus]_vars

(* fix_scientific_notation_ids applied to a loaded billing table, and then to *)
(* its own output with the same CRM table                                     *)

MaxRepairRows == 2
MaxRepairCrm == 2

Corrupted == "8.3E+07"
Corrupted2 == "1e-05"
TrueId == "deadbeef"
TrueId2 == "cafe1234"
ExampleUrl == "https://www.Example.com/start"
ShopUrl == "shop.at"

RepairRows ==
    RawRows({Corrupted}, {NaN, ExampleUrl, ShopUrl}, {License, Cookiebot}, {"1"}, {NaN})
    \cup RawRows({Corrupted2}, {ExampleUrl}, {License}, {"1"}, {NaN})
    \cup RawRows({TrueId}, {NaN}, {License}, {"1"}, {NaN})

\* the CRM knows example.com under the true id, under a second id (an ambiguous
\* domain) or under an id that is itself corrupted, and shop.at under the second id
RepairCrm ==
    CrmRows({TrueId, TrueId2, Corrupted}, {"Website online"}, {"example.com"})
    \cup CrmRows({TrueId2}, {"Website online"}, {"shop.at"})

InitRepair ==
    /\ pc = "loaded"
    /\ duda_raw \in Tables(RepairRows, MaxRepairRows)
    /\ duda_df = load_duda_file(duda_raw)
    /\ crm_df \in Tables(RepairCrm, MaxRepairCrm)
    /\ now = Today
    /\ issues = <<>> /\ summary = None
    /\ args = Idle /\ ret = None
    /\ VerifierIdle
    /\ DisplayIdle

\* the table is rewritten in place and returned
Repair ==
    /\ pc = "loaded"
    /\ duda_df' = fix_scientific_notation_ids(duda_df, crm_df)
    /\ ret' = duda_df'
    /\ pc' = "repaired"
    /\ UNCHANGED <<duda_raw, crm_df, now, issues, summary, args>>
    /\ UNCHANGED verifier_vars
    /\ UNCHANGED display_vars

\* the second application; ret keeps a copy of what the first returned
RepairAgain ==
    /\ pc = "repaired"
    /\ duda_df' = fix_scientific_notation_ids(duda_df, crm_df)
    /\ pc' = "repaired again"
    /\ UNCHANGED <<duda_raw, crm_df, now, issues, summary, args, ret>>
    /\ UNCHANGED verifier_vars
    /\ UNCHANGED display_vars

NextRepair == Repair \/ RepairAgain

SpecRepair == InitRepair /\ [][NextRepair]_vars

(* A run of main() on billing rows that carry a corrupted id *)

UnrepairedRows ==
    RawRows({Corrupted}, {NaN, ExampleUrl, ShopUrl}, {License, Cookiebot}, {"1"}, {NaN})

InitUnrepaired == InitRun(UnrepairedRows, MaxRepairRows, RepairCrm, MaxRepairCrm, {Today})

SpecUnrepaired == InitUnrepaired /\ [][Next]_vars

(* verify_issues on the issues of a run, with any credentials in the secrets *)
(* and any outcome of the requests                                          *)

MaxIssues == 2

\* the body of a status answer and an entry of the activity list
SiteData(publish_status, unpublication_date) ==
    [publish_status |-> publish_status, unpublication_date |-> unpublication_date,
     last_published_date |-> "2024-05-01T10:00:00Z", site_domain |-> "example.com"]
EmptyData ==
    [publish_status |-> Missing, unpublication_date |-> Missing,
     last_published_date |-> Missing, site_domain |-> Missing]
Activity(activity_type, date) == [activity_type |-> activity_type, date |-> date]

Unpublished12 == Activity("site_unpublished", "2024-07-20")
Unpublished61 == Activity("site_unpublished", "2024-06-01T08:00:00Z")
Published == Activity("site_published", "2024-06-10")

HistFailed == Raised("Connection aborted")
HistEmpty == Response(200, <<>>)
HistPublishOnly == Response(200, <<Published>>)
HistOldestFirst ==
    Response(200, <<Activity("site_created", "2024-01-01"), Unpublished61, Published,
                    Unpublished12>>)
HistNewestFirst == Response(200, <<Unpublished12, Published, Unpublished61>>)
HistUnreadable ==
    Response(200, <<Activity("site_unpublished", Missing), Activity("site_unpublished", "bald"),
                    Activity("SITE_UNPUBLISHED", "01.07.2024")>>)
HistLong == Response(200, [k \in 1..11 |-> IF k = 11 THEN Unpublished12 ELSE Published])
HistNullType == Response(200, <<Activity(None, "2024-07-20")>>)

Histories ==
    {HistFailed, Response(500, None), HistEmpty, HistPublishOnly, HistOldestFirst,
     HistNewestFirst, HistUnreadable, HistLong, HistNullType}

Outcome(response, history_response) ==
    [response |-> response, history_response |-> history_response]

\* a query that fails: no history query follows it
Failures ==
    {Outcome(r, HistFailed) :
        r \in {Raised("Timeout"), Raised("Connection refused"),
               Response(403, None), Response(404, None), Response(500, None)}}

\* a site that is published
Online ==
    {Outcome(Response(200, SiteData("PUBLISHED", Missing)), HistEmpty),
     Outcome(Response(200, SiteData("PUBLISHED", "2024-06-01")), HistFailed)}

\* a site that is not published, with a date of its own: 12, 31, 32 or 61 days ago
OfflineDated ==
    {Outcome(Response(200, SiteData("UNPUBLISHED", d)), HistNewestFirst) :
        d \in {"2024-07-20", "2024-07-01", "2024-06-30", "2024-06-01"}}
    \cup {Outcome(Response(200, SiteData("UNPUBLISHED", "2024-06-01")), HistOldestFirst)}

\* a site that is not published, without a date or with one that cannot be read
OfflineUndated ==
    {Outcome(Response(200, SiteData("UNPUBLISHED", Missing)), h) : h \in Histories}
    \cup {Outcome(Response(200, SiteData("UNPUBLISHED", "bald")), h) :
             h \in {HistEmpty, HistNewestFirst}}
    \cup {Outcome(Response(200, EmptyData), HistEmpty)}

Outcomes == Failures \cup Online \cup OfflineDated \cup OfflineUndated

Credentials == {None, "", "api-user"}

IssueRows ==
    {Issue(Site1, [Site_URL |-> NaN, Produkttyp |-> "Lizenz", Charge_Frequency |-> License],
           "gekündigt", "Projekt", "Abweichender Workflow-Status", NoDays),
     Issue(Site2, [Site_URL |-> NaN, Produkttyp |-> "CCB", Charge_Frequency |-> Cookiebot],
           "Nicht gefunden", "Nicht gefunden", "Site nicht im CRM", Days(19))}

\* DudaAPIVerifier() and the call verify_issues(issues), the API answering
\* with any of outcomes
InitVerifier(outcomes) ==
    /\ pc = "verify"
    /\ remote = outcomes
    /\ now = Today
    /\ issues \in Tables(IssueRows, MaxIssues)
    /\ api_username \in Credentials /\ api_password \in Credentials
    /\ api_available = CredentialsAvailable(api_username, api_password)
    /\ idx = 0 /\ verified_issues = <<>> /\ false_positives = <<>> /\ api_errors = <<>>
    /\ api_calls_made = 0 /\ requests = <<>>
    /\ duda_raw = <<>> /\ duda_df = <<>> /\ crm_df = <<>> /\ summary = None
    /\ args = Idle /\ ret = NoResult
    /\ DisplayIdle

InitVerify == InitVerifier(Outcomes)

\* return issues_df, [], []
Returned(remaining, fps, errs) ==
    [remaining_issues |-> remaining, false_positives |-> fps, api_errors |-> errs]

VerifyPassThrough ==
    /\ pc = "verify"
    /\ PassesThrough
    /\ pc' = "verified"
    /\ ret' = Returned(issues, <<>>, <<>>)
    /\ UNCHANGED <<duda_raw, duda_df, crm_df, now, issues, summary, args, verifier_vars>>
    /\ UNCHANGED display_vars

VerifyBegin ==
    /\ pc = "verify"
    /\ ~PassesThrough
    /\ verified_issues' = <<>> /\ false_positives' = <<>> /\ api_errors' = <<>>
    /\ api_calls_made' = 0 /\ idx' = 0
    /\ pc' = "verifying"
    /\ UNCHANGED <<duda_raw, duda_df, crm_df, now, issues, summary, args, ret,
                   api_username, api_password, api_available, requests, remote>>
    /\ UNCHANGED display_vars

\* the lists after the classification of one issue
Appended(lists) ==
    /\ verified_issues' = lists.verified_issues
    /\ false_positives' = lists.false_positives
    /\ api_errors' = lists.api_errors

Analysed(issue, api_result, analysis) ==
    Appended(Classify(Lists(verified_issues, false_positives, api_errors),
                      Enriched(issue, idx, api_result, analysis),
                      analysis.classification))

LoopBody(issue, site_id, api_result) ==
    Analysed(issue, api_result, analyze_api_result(site_id, api_result, issue))

\* one pass of the loop: the query, the analysis, the classification
VerifyIssue ==
    /\ pc = "verifying"
    /\ idx < Len(issues)
    /\ \E o \in remote :
          /\ LoopBody(issues[idx + 1], issues[idx + 1].Site_Alias,
                      get_site_status(issues[idx + 1].Site_Alias, o.response,
                                      o.history_response))
          /\ requests' = requests \o Sent(issues[idx + 1].Site_Alias, idx, o.response)
    /\ api_calls_made' = api_calls_made + 1
    /\ idx' = idx + 1
    /\ UNCHANGED <<pc, duda_raw, duda_df, crm_df, now, issues, summary, args, ret,
                   api_username, api_password, api_available, remote>>
    /\ UNCHANGED display_vars

VerifyReturn ==
    /\ pc = "verifying"
    /\ idx = Len(issues)
    /\ pc' = "verified"
    /\ ret' = Returned(DataFrame(verified_issues), false_positives, api_errors)
    /\ UNCHANGED <<duda_raw, duda_df, crm_df, now, issues, summary, args, verifier_vars>>
    /\ UNCHANGED display_vars

NextVerify == VerifyPassThrough \/ VerifyBegin \/ VerifyIssue \/ VerifyReturn

SpecVerify == InitVerify /\ [][NextVerify]_vars

(* get_site_status and analyze_api_result called on their own, on any answer *)
(* of the API                                                                *)

AnalyzeOutcomes ==
    Failures
    \cup {Outcome(Response(200, SiteData(p, d)), h) :
            p \in {"PUBLISHED", "UNPUBLISHED"},
            d \in {Missing, None, "", "bald", "2024-07-20", "2024-06-01"},
            h \in Histories}

InitAnalyze ==
    /\ pc = "call"
    /\ remote = AnalyzeOutcomes
    /\ \E o \in remote :
          args = [fn |-> "get_site_status", site_id |-> Site1, response |-> o.response,
                  history_response |-> o.history_response]
    /\ now = Today
    /\ ret = NoResult
    /\ api_username = "api-user" /\ api_password = "secret"
    /\ api_available = CredentialsAvailable(api_username, api_password)
    /\ idx = 0 /\ verified_issues = <<>> /\ false_positives = <<>> /\ api_errors = <<>>
    /\ api_calls_made = 0 /\ requests = <<>>
    /\ duda_raw = <<>> /\ duda_df = <<>> /\ crm_df = <<>>
    /\ issues \in {<<i>> : i \in IssueRows} /\ summary = None
    /\ DisplayIdle

CallGetSiteStatus ==
    /\ pc = "call"
    /\ args.fn = "get_site_status"
    /\ ret' = get_site_status(args.site_id, args.response, args.history_response)
    /\ requests' = requests \o Sent(args.site_id, 0, args.response)
    /\ pc' = "status"
    /\ UNCHANGED <<duda_raw, duda_df, crm_df, now, issues, summary, args,
                   api_username, api_password, api_available, idx, verified_issues,
                   false_positives, api_errors, api_calls_made, remote>>
    /\ UNCHANGED display_vars

\* analyze_api_result(site_id, api_result, issue) on what get_site_status returned
CallAnalyzeApiResult ==
    /\ pc = "status"
    /\ args' = [fn |-> "analyze_api_result", site_id |-> args.site_id, api_result |-> ret]
    /\ ret' = analyze_api_result(args.site_id, ret, issues[1])
    /\ pc' = "returned"
    /\ UNCHANGED <<duda_raw, duda_df, crm_df, now, issues, summary>>
    /\ UNCHANGED verifier_vars
    /\ UNCHANGED display_vars

NextAnalyze == CallGetSiteStatus \/ CallAnalyzeApiResult

SpecAnalyze == InitAnalyze /\ [][NextAnalyze]_vars

\* verify_issues is straight-line code around one for loop; every request has
\* a timeout (15 s and 10 s) and the pause between two passes is 0.1 s, so a
\* step that can be taken is taken.  Every step changes the position of the
\* call or of the loop
position == <<pc, idx>>

\* a query that times out, a site that is published, a site that is offline
\* since an unknown date
LiveOutcomes ==
    {Outcome(Raised("Timeout"), HistFailed),
     Outcome(Response(200, SiteData("PUBLISHED", Missing)), HistEmpty),
     Outcome(Response(200, SiteData("UNPUBLISHED", Missing)), HistFailed)}

InitVerifyLive == InitVerifier(LiveOutcomes)

SpecVerifyLive == InitVerifyLive /\ [][NextVerify]_vars /\ WF_position(NextVerify)

(* categorize_charge_frequency called on its own, and once more on the same *)
(* cell                                                                     *)

FrequencyWords ==
    {"DudaOne Monthly", "dudaone monthly", "DUDAONE  MONTHLY", "DudaOne Yearly", "eCom",
     "Store", "Cookiebot", "AudioEye", "Paperform", "RSS Feed", "Social", "SiteSearch",
     "Book Like A Boss", "IVR", "Simple Editor", "cookiebot dudaone monthly store"}

FrequencyValues ==
    {NaN, None, "", " "}
    \cup {p \o w \o x : p \in {"", "Duda "}, w \in FrequencyWords, x \in {"", " (monthly)"}}

InitCategorize ==
    /\ pc = "call"
    /\ args \in [fn : {"categorize_charge_frequency"}, charge_frequency : FrequencyValues]
    /\ now = Today
    /\ ret = None
    /\ duda_raw = <<>> /\ duda_df = <<>> /\ crm_df = <<>>
    /\ issues = <<>> /\ summary = None
    /\ VerifierIdle
    /\ DisplayIdle

CallCategorize ==
    /\ pc = "call"
    /\ args.fn = "categorize_charge_frequency"
    /\ ret' = categorize_charge_frequency(args.charge_frequency)
    /\ pc' = "returned"
    /\ UNCHANGED <<duda_raw, duda_df, crm_df, now, issues, summary, args>>
    /\ UNCHANGED verifier_vars
    /\ UNCHANGED display_vars

\* the second call; ret keeps what the first returned
CallCategorizeAgain ==
    /\ pc = "returned"
    /\ args.fn = "categorize_charge_frequency"
    /\ ret' = [first |-> ret, second |-> categorize_charge_frequency(args.charge_frequency)]
    /\ pc' = "returned again"
    /\ UNCHANGED <<duda_raw, duda_df, crm_df, now, issues, summary, args>>
    /\ UNCHANGED verifier_vars
    /\ UNCHANGED display_vars

NextCategorize == CallCategorize \/ CallCategorizeAgain

SpecCategorize == InitCategorize /\ [][NextCategorize]_vars

-----------------------------------------------------------------------------
(* load_crm_file called on a CRM export.  The exports differ in their header *)
(* (with or without landing-page, domain and project columns, without a      *)
(* status or a standard id column) and hold sites with and without a         *)
(* landing-page id, which may be another row's standard id.                  *)

MaxCrmRows == 2

FullHeader == <<"Projektname", "Domain", "Duda-Site-ID", "Site-ID-Duda", "Workflow-Status">>
BareHeader == <<"duda_site_id", "Workflow Status">>
NoProjectHeader == <<"Duda-Site-ID", "Site-ID-Duda", "Workflow-Status">>
NoStatusHeader == <<"Duda-Site-ID", "Domain", "Status">>
NoSiteIdHeader == <<"Site-ID-Duda", "Workflow-Status">>

CrmHeaders == {FullHeader, BareHeader, NoProjectHeader, NoStatusHeader, NoSiteIdHeader}

\* what the export holds in a column of the given name
Kind(c) ==
    IF c \in {"Duda-Site-ID", "duda_site_id"} THEN "site"
    ELSE IF c = "Site-ID-Duda" THEN "lp"
    ELSE IF c = "Domain" THEN "domain"
    ELSE IF c = "Projektname" THEN "project"
    ELSE "status"

ExportSites ==
    [site : {"aa11", " bb22 ", NaN}, lp : {NaN, "bb22", " cc33"},
     status : {"Website online"}, domain : {"a.at"}, project : {"Kunde A"}]
    \cup [site : {"aa11", " bb22 ", NaN}, lp : {NaN, "bb22", " cc33"},
          status : {"Offline"}, domain : {NaN}, project : {" Kunde B"}]
    \cup [site : {"aa11"}, lp : {" "},
          status : {"Offline"}, domain : {"a.at"}, project : {NaN}]

Range(f) == {f[x] : x \in DOMAIN f}

ExportRows(header, sites) ==
    {[c \in Range(header) |-> site[Kind(c)]] : site \in sites}

CrmFiles(headers, sites, n) ==
    UNION {[columns : {h}, rows : Tables(ExportRows(h, sites), n)] : h \in headers}

InitCrm ==
    /\ pc = "call"
    /\ args \in [fn : {"load_crm_file"}, file : CrmFiles(CrmHeaders, ExportSites, MaxCrmRows)]
    /\ now = Today
    /\ ret = None
    /\ duda_raw = <<>> /\ duda_df = <<>> /\ crm_df = <<>>
    /\ issues = <<>> /\ summary = None
    /\ VerifierIdle
    /\ DisplayIdle

CallLoadCrmFile ==
    /\ pc = "call"
    /\ args.fn = "load_crm_file"
    /\ ret' = load_crm_file(args.file)
    /\ pc' = "returned"
    /\ UNCHANGED <<duda_raw, duda_df, crm_df, now, issues, summary, args>>
    /\ UNCHANGED verifier_vars
    /\ UNCHANGED display_vars

NextCrm == CallLoadCrmFile

SpecCrm == InitCrm /\ [][NextCrm]_vars

-----------------------------------------------------------------------------
(* main: both exports are loaded, and on success the analysis runs; an       *)
(* exception of either loader ends the run (app.py, try/except of main).     *)
(* The billing export may lack any one column; the CRM export has one of the *)
(* headers above and may hold the same site id twice with different status.  *)

MaxMainRows == 1
MaxMainCrm == 2

DudaColumns ==
    {"Site Alias", "Site URL", "Charge Frequency", "Should Charge", "Unpublication Date"}
DudaHeaders == {DudaColumns} \cup {DudaColumns \ {c} : c \in DudaColumns}

MainRows == RawRows({"aa11", "cc33", "zz99"}, {NaN}, {License}, {"1"}, {NaN})

MainSites ==
    [site : {"aa11"}, lp : {NaN, " cc33"}, status : {"Website online", "Offline"},
     domain : {"a.at"}, project : {"Kunde A"}]
    \cup [site : {NaN}, lp : {"cc33"}, status : {"Website online"},
          domain : {"a.at"}, project : {"Kunde A"}]

InitMain ==
    /\ pc = "files"
    /\ duda_raw \in Tables(MainRows, MaxMainRows)
    /\ args \in [fn : {"main"}, duda_columns : DudaHeaders,
                 crm_file : CrmFiles(CrmHeaders, MainSites, MaxMainCrm)]
    /\ now = Today
    /\ duda_df = <<>> /\ crm_df = <<>> /\ issues = <<>> /\ summary = None
    /\ ret = None
    /\ VerifierIdle
    /\ DisplayIdle

\* duda_df = processor.load_duda_file(duda_file)
MainLoadDuda ==
    /\ pc = "files"
    /\ LET loaded == load_duda_export(args.duda_columns, duda_raw)
       IN IF loaded.ok
          THEN /\ duda_df' = loaded.df
               /\ pc' = "duda loaded"
               /\ UNCHANGED ret
          ELSE /\ ret' = loaded
               /\ pc' = "failed"
               /\ UNCHANGED duda_df
    /\ UNCHANGED <<duda_raw, crm_df, now, issues, summary, args>>
    /\ UNCHANGED verifier_vars
    /\ UNCHANGED display_vars

\* crm_df = processor.load_crm_file(crm_file)
MainLoadCrm ==
    /\ pc = "duda loaded"
    /\ LET loaded == load_crm_file(args.crm_file)
       IN IF loaded.ok
          THEN /\ crm_df' = loaded.df
               /\ pc' = "loaded"
               /\ UNCHANGED ret
          ELSE /\ ret' = loaded
               /\ pc' = "failed"
               /\ UNCHANGED crm_df
    /\ UNCHANGED <<duda_raw, duda_df, now, issues, summary, args>>
    /\ UNCHANGED verifier_vars
    /\ UNCHANGED display_vars

NextMain == MainLoadDuda \/ MainLoadCrm \/ Analyze \/ FindIssues \/ GetSummary

SpecMain == InitMain /\ [][NextMain]_vars

-----------------------------------------------------------------------------
(* The grace rule called with dates on both sides of now: is_status_ok on a  *)
(* status and a date, and get_site_status followed by analyze_api_result on  *)
(* a site that is not published.  now is 2024-08-01 09:00.                   *)

GraceStatuses == {"Offline", "Kunde gekündigt", "OFFLINE (Relaunch)", "In Bearbeitung"}

GraceDates ==
    {"2024-08-01T23:30:00Z", "2024-08-02", "15.08.2024", "09/01/2024 08:00:00",
     "2025-01-01T00:00:00.000Z", "2024-08-01", "2024-07-01", "2024-06-30", "bald"}

GraceHistories ==
    {HistFailed, HistEmpty,
     Response(200, <<Activity("site_unpublished", "2024-09-01T00:00:00Z"), Unpublished61>>)}

GraceOutcomes ==
    {Outcome(Response(200, SiteData("UNPUBLISHED", d)), h) :
        d \in GraceDates \cup {Missing}, h \in GraceHistories}

InitGrace ==
    /\ pc = "call"
    /\ now = Today
    /\ \/ /\ args \in [fn : {"is_status_ok"}, status : GraceStatuses,
                       unpublication_date : GraceDates]
          /\ remote = {}
       \/ /\ remote = GraceOutcomes
          /\ \E o \in remote :
                args = [fn |-> "get_site_status", site_id |-> Site1,
                        response |-> o.response,
                        history_response |-> o.history_response]
    /\ ret = NoResult
    /\ api_username = "api-user" /\ api_password = "secret"
    /\ api_available = CredentialsAvailable(api_username, api_password)
    /\ idx = 0 /\ verified_issues = <<>> /\ false_positives = <<>> /\ api_errors = <<>>
    /\ api_calls_made = 0 /\ requests = <<>>
    /\ duda_raw = <<>> /\ duda_df = <<>> /\ crm_df = <<>>
    /\ issues \in {<<i>> : i \in IssueRows} /\ summary = None
    /\ DisplayIdle

NextGrace == CallIsStatusOk \/ CallGetSiteStatus \/ CallAnalyzeApiResult

SpecGrace == InitGrace /\ [][NextGrace]_vars

-----------------------------------------------------------------------------
(* The page rerun after rerun: main loads and analyses the files uploaded at *)
(* that moment and display_results renders them; the verification button may *)
(* be pressed when it is shown.  The session state outlives the reruns.      *)

Upload(raw, crm) == [duda_raw |-> raw, crm_df |-> crm]

Uploads ==
    LET licence == [Site_Alias |-> Site1, Site_URL |-> NaN, Charge_Frequency |-> License,
                    Should_Charge |-> "1", Unpublication_Date |-> NaN]
        app == [Site_Alias |-> Site2, Site_URL |-> NaN, Charge_Frequency |-> Cookiebot,
                Should_Charge |-> "1", Unpublication_Date |-> NaN]
        entry(status) == [Site_ID_Duda |-> Site1, Workflow_Status |-> status,
                          Domain |-> "", Projektname |-> "Projekt"]
    IN {Upload(<<licence>>, <<entry("gekündigt")>>),
        Upload(<<licence, app>>, <<entry("gekündigt")>>),
        Upload(<<licence>>, <<entry("Website online")>>)}

\* main up to the call of display_results, on the files of the upload
Analysed_(upload) ==
    /\ duda_raw' = upload.duda_raw
    /\ crm_df' = upload.crm_df
    /\ duda_df' = DataAnalyzerInit(load_duda_file(upload.duda_raw), upload.crm_df)
    /\ issues' = find_issues(duda_df', upload.crm_df)
    /\ summary' = Summary(duda_df', issues')

InitDisplay ==
    /\ pc = "rendered"
    /\ now = Today
    /\ duda_raw = <<>> /\ duda_df = <<>> /\ crm_df = <<>>
    /\ issues = <<>> /\ summary = None
    /\ args = Idle /\ ret = NoResult
    /\ remote = LiveOutcomes
    /\ api_username \in {None, "api-user"} /\ api_password = "secret"
    /\ api_available = CredentialsAvailable(api_username, api_password)
    /\ idx = 0 /\ verified_issues = <<>> /\ false_positives = <<>> /\ api_errors = <<>>
    /\ api_calls_made = 0 /\ requests = <<>>
    /\ DisplayIdle

\* the script runs again, on the same files or on others
Rerun ==
    /\ pc = "rendered"
    /\ \E upload \in Uploads : Analysed_(upload)
    /\ csv_data' = NoReport
    /\ requests' = <<>>
    /\ pc' = "rerun"
    /\ UNCHANGED <<now, args, ret, api_username, api_password, api_available, idx,
                   verified_issues, false_positives, api_errors, api_calls_made, remote,
                   session_state>>

\* display_results up to the report, or up to the call of verify_issues
DisplayResults ==
    /\ pc = "rerun"
    /\ \E verify_button \in BOOLEAN :
          /\ verify_button => api_available /\ issues # <<>>
          /\ args' = [fn |-> "display_results", verify_button |-> verify_button]
          /\ IF issues = <<>>
             THEN csv_data' = NoReport /\ pc' = "rendered"
             ELSE IF verify_button
             THEN csv_data' = NoReport /\ pc' = "verify"
             ELSE /\ csv_data' = generate_csv_report(
                                    ShownIssues(issues, api_available, session_state),
                                    summary, ApiResults(session_state))
                  /\ pc' = "rendered"
    /\ UNCHANGED <<duda_raw, duda_df, crm_df, now, issues, summary, ret, verifier_vars,
                   session_state>>

\* display_results from the return of verify_issues on
DisplayVerified ==
    /\ pc = "verified"
    /\ session_state' = Stored(session_state, ret.remaining_issues, ret.false_positives,
                               ret.api_errors)
    /\ csv_data' = IF ret.remaining_issues = <<>> THEN NoReport
                   ELSE generate_csv_report(ret.remaining_issues, summary,
                                            ApiResults(session_state'))
    /\ pc' = "rendered"
    /\ UNCHANGED <<duda_raw, duda_df, crm_df, now, issues, summary, args, ret,
                   verifier_vars>>

NextDisplay ==
    Rerun \/ DisplayResults \/ VerifyBegin \/ VerifyIssue \/ VerifyReturn \/ DisplayVerified

SpecDisplay == InitDisplay /\ [][NextDisplay]_vars

-----------------------------------------------------------------------------
(* Properties *)

RECURSIVE SumOver(_, _)
\* the sum of f[x] over the x in S
SumOver(f, S) ==
    IF S = {} THEN 0
    ELSE LET x == CHOOSE y \in S : TRUE IN f[x] + SumOver(f, S \ {x})

\* C1: the summary of get_summary satisfies ok_count + issues_count = total_charged,
\* and the sum over the product types p of the breakdown of
\* breakdown[p].ok + breakdown[p].issues is total_charged.
C1_SummaryAddsUp ==
    pc = "done" =>
        LET b == summary.product_breakdown
            both == [p \in DOMAIN b |-> b[p].ok + b[p].issues]
        IN /\ summary.ok_count + summary.issues_count = summary.total_charged
           /\ summary.total_charged = Len(duda_df)
           /\ SumOver(both, DOMAIN b) = summary.total_charged

\* a summary over two product types, with issues and with items in order
C1_Witness ==
    /\ pc = "done"
    /\ Cardinality(DOMAIN summary.product_breakdown) = 2
    /\ summary.issues_count = 1
    /\ summary.ok_count = 1

\* a Should Charge cell whose value is the number 1
IsOne(cell) ==
    /\ ~isna(cell)
    /\ LET t == strip(cell)
           dot == FindFirst(t, {"."}, 1)
       IN /\ SubSeq(t, 1, dot - 1) \in {"1", "+1"}
          /\ \A i \in (dot + 1)..Len(t) : Char(t, i) = "0"

\* the number of rows of the billing export whose Should Charge is 1
ChargedOnes == Cardinality({i \in 1..Len(duda_raw) : IsOne(duda_raw[i].Should_Charge)})

\* C2: a billing row whose Should Charge is not 1 (non-numeric and missing values
\* included) is dropped by load_duda_file, so it is no row of the loaded table, it
\* yields no issue and it is not counted in the summary.
C2_NotOneIsDropped ==
    /\ pc # "upload" => Len(duda_df) <= ChargedOnes
    /\ pc \in {"issues", "done"} => Len(issues) <= ChargedOnes
    /\ pc = "done" => summary.total_charged <= ChargedOnes

\* the status words and the date facts of the claim, stated on the arguments
StatusHas(status, word) == ~isna(status) /\ Contains(lower(status), word)

DatePresent(d) == ~isna(d) /\ d # ""

\* C3: is_status_ok(status, unpub_date) is True exactly when the status contains
\* 'website online' (case-insensitive), or it contains 'offline' or 'gekündigt' and
\* unpub_date is present, parseable and days_since(unpub_date) <= 31; for such a
\* status 31 days give True and 32 days give False.
C3_StatusOkExact ==
    pc = "returned" /\ args.fn = "is_status_ok" =>
        LET st == args.status
            d == args.unpublication_date
            online == StatusHas(st, "website online")
            ended == StatusHas(st, "offline") \/ StatusHas(st, "gekündigt")
            since == days_since_date(d)
            parseable == ~since.is_none
        IN /\ ret = (online \/ (ended /\ DatePresent(d) /\ parseable /\ since.days <= 31))
           /\ ended /\ parseable /\ since.days = 31 => ret = TRUE
           /\ ended /\ ~online /\ parseable /\ since.days = 32 => ret = FALSE
           /\ ~online /\ (~DatePresent(d) \/ ~parseable) => ret = FALSE

\* a terminated status with an unpublication date of exactly 31 days ago is OK
C3_Witness ==
    /\ pc = "returned" /\ args.fn = "is_status_ok"
    /\ StatusHas(args.status, "gekündigt")
    /\ days_since_date(args.unpublication_date) = Days(31)
    /\ ret = TRUE

\* the rows of the analysed billing table, and what the claims say of a row
Rows == 1..Len(duda_df)

IssuesFound == pc \in {"issues", "done"}

SiteId(i) == strip(str(duda_df[i].Site_Alias))

IsApp(i) == is_app_product(duda_df[i].Produkttyp)

OwnDate(i) == duda_df[i].Unpublication_Date

\* the CRM entries whose Site-ID-Duda equals id
CrmEntries(id) == {k \in 1..Len(crm_df) : crm_df[k].Site_ID_Duda = id}

\* the issues the row i produces
Produced(i) == RowIssues(duda_df, crm_df, duda_df[i])

AppLabels(product_type) ==
    {product_type \o " ohne Website online",
     product_type \o " keine zugehörige Lizenz gefunden"}

\* C4 as stated: every issue of an App-type item is labelled '<Produkttyp> ohne
\* Website online' or '<Produkttyp> keine zugehörige Lizenz gefunden', and carries
\* no other label.
C4_AppIssueLabels ==
    IssuesFound =>
        \A k \in 1..Len(issues) :
            is_app_product(issues[k].Produkttyp)
                => issues[k].Problem_Typ \in AppLabels(issues[k].Produkttyp)

\* C4 amended: an issue of an App-type item is labelled 'Site nicht im CRM' when its
\* site id has no CRM entry, and otherwise '<Produkttyp> ohne Website online' or
\* '<Produkttyp> keine zugehörige Lizenz gefunden'; it is never labelled
\* 'Abweichender Workflow-Status'.
C4_AppIssueLabelsAmended ==
    IssuesFound =>
        \A k \in 1..Len(issues) :
            is_app_product(issues[k].Produkttyp)
                => /\ issues[k].Problem_Typ # "Abweichender Workflow-Status"
                   /\ IF CrmEntries(issues[k].Site_Alias) = {}
                      THEN issues[k].Problem_Typ = "Site nicht im CRM"
                      ELSE issues[k].Problem_Typ \in AppLabels(issues[k].Produkttyp)

\* an App-type item in the CRM, not OK, with a licence row that is not OK either
C4_Witness ==
    /\ IssuesFound
    /\ \E k \in 1..Len(issues) :
           issues[k].Produkttyp = "CCB" /\ issues[k].Problem_Typ = "CCB ohne Website online"

\* C7: every billing item whose site id has no equal Site-ID-Duda entry in the CRM
\* produces exactly one issue, labelled 'Site nicht im CRM', whatever its product
\* type, its date and the other rows.
C7_UnmatchedIsIssue ==
    IssuesFound =>
        \A i \in Rows :
            CrmEntries(SiteId(i)) = {} =>
                LET id == SiteId(i)
                    typ == duda_df[i].Produkttyp
                    rowsLike == [j \in Rows |->
                                    SiteId(j) = id /\ duda_df[j].Produkttyp = typ]
                    issuesLike == [k \in 1..Len(issues) |->
                                    /\ issues[k].Site_Alias = id
                                    /\ issues[k].Produkttyp = typ]
                IN /\ Count(issuesLike) = Count(rowsLike)
                   /\ \A k \in 1..Len(issues) :
                          issuesLike[k] => issues[k].Problem_Typ = "Site nicht im CRM"
                   /\ Len(Produced(i)) = 1

\* an App-type item without a CRM entry beside an item that has one
C7_Witness ==
    /\ IssuesFound
    /\ \E i, j \in Rows :
           /\ IsApp(i) /\ CrmEntries(SiteId(i)) = {}
           /\ CrmEntries(SiteId(j)) # {}
    /\ \E k \in 1..Len(issues) :
           issues[k].Problem_Typ = "Site nicht im CRM" /\ issues[k].Produkttyp = "CCB"

InCrm(i) == CrmEntries(SiteId(i)) # {}

\* the row's site is in the CRM and is_status_ok holds of its status and the date d
OkWith(i, d) ==
    InCrm(i) /\ \A k \in CrmEntries(SiteId(i)) : is_status_ok(crm_df[k].Workflow_Status, d)

\* the row's site is in the CRM and is_status_ok fails for its status and the date d
NotOkWith(i, d) ==
    InCrm(i) /\ \A k \in CrmEntries(SiteId(i)) : ~is_status_ok(crm_df[k].Workflow_Status, d)

\* the License-type rows with the site id of row i
LicenseRows(i) == {j \in Rows : duda_df[j].Produkttyp = "Lizenz" /\ SiteId(j) = SiteId(i)}

\* C6 as stated: an App-type item produces no issue only if a License-type item
\* with the same site id exists and itself produces no issue.
C6_AppNeedsLicense ==
    IssuesFound =>
        \A i \in Rows :
            IsApp(i) /\ Produced(i) = <<>>
                => \E j \in LicenseRows(i) : Produced(j) = <<>>

\* C6 amended: an App-type item produces no issue only if its site is in the CRM
\* and either is_status_ok holds of the status and the item's effective date, or a
\* License-type item with the same site id exists and itself produces no issue.
C6_AppNeedsLicenseAmended ==
    IssuesFound =>
        \A i \in Rows :
            IsApp(i) /\ Produced(i) = <<>>
                => /\ InCrm(i)
                   /\ \/ \E k \in CrmEntries(SiteId(i)) :
                             is_status_ok(crm_df[k].Workflow_Status,
                                          EffectiveDate(duda_df, duda_df[i]))
                      \/ \E j \in LicenseRows(i) : Produced(j) = <<>>

\* an App-type item that is not OK under its own date and rides on its licence
C6_Witness ==
    /\ IssuesFound
    /\ \E i \in Rows :
           /\ IsApp(i) /\ NotOkWith(i, EffectiveDate(duda_df, duda_df[i]))
           /\ Produced(i) = <<>>
           /\ LicenseRows(i) # {}
    /\ issues = <<>>

\* C8: a billing item whose site is in the CRM and for which is_status_ok holds of
\* the status and the effective date produces no issue, whatever its product type
\* and the other rows.
C8_OkIsNoIssue ==
    IssuesFound =>
        LET fine == [i \in Rows |-> OkWith(i, EffectiveDate(duda_df, duda_df[i]))]
        IN /\ \A i \in Rows : fine[i] => Produced(i) = <<>>
           /\ Len(issues) <= Len(duda_df) - Count(fine)

\* a licence of a terminated site unpublished 19 days ago, and no issue
C8_Witness ==
    /\ IssuesFound
    /\ issues = <<>>
    /\ \E i \in Rows :
           /\ duda_df[i].Produkttyp = "Lizenz"
           /\ days_since_date(OwnDate(i)) = Days(19)
           /\ \E k \in CrmEntries(SiteId(i)) : crm_df[k].Workflow_Status = "gekündigt"

\* C9: a billing item that is not an App type, whose site is in the CRM and for
\* which is_status_ok fails, produces exactly one issue, labelled 'Abweichender
\* Workflow-Status'.
C9_NotOkIsMismatch ==
    IssuesFound =>
        LET bad == [i \in Rows |-> ~IsApp(i) /\ NotOkWith(i, OwnDate(i))]
            mismatch == [k \in 1..Len(issues) |->
                            issues[k].Problem_Typ = "Abweichender Workflow-Status"]
        IN /\ \A i \in Rows :
                  bad[i] => /\ Len(Produced(i)) = 1
                            /\ Produced(i)[1].Problem_Typ = "Abweichender Workflow-Status"
           /\ Count(mismatch) >= Count(bad)

\* a licence of a terminated site unpublished 61 days ago, and its one issue
C9_Witness ==
    /\ IssuesFound
    /\ Len(duda_df) = 1 /\ duda_df[1].Produkttyp = "Lizenz"
    /\ days_since_date(OwnDate(1)) = Days(61)
    /\ Len(issues) = 1
    /\ issues[1].Problem_Typ = "Abweichender Workflow-Status"
    /\ issues[1].CRM_Status = "gekündigt"

\* C10: an App-type item whose site is in the CRM and that is not OK under its
\* effective date produces no issue if and only if a License-type row with the same
\* site id exists for which is_status_ok holds of the status and that row's own
\* date; otherwise it produces one issue, labelled '<Produkttyp> ohne Website
\* online' when a License-type row exists and '<Produkttyp> keine zugehörige Lizenz
\* gefunden' when none exists.
C10_AppExemption ==
    IssuesFound =>
        \A i \in Rows :
            IsApp(i) /\ NotOkWith(i, EffectiveDate(duda_df, duda_df[i])) =>
                LET typ == duda_df[i].Produkttyp
                    exempt == \E j \in LicenseRows(i) : OkWith(j, OwnDate(j))
                IN IF exempt THEN Produced(i) = <<>>
                   ELSE /\ Len(Produced(i)) = 1
                        /\ Produced(i)[1].Problem_Typ =
                               IF LicenseRows(i) # {}
                               THEN typ \o " ohne Website online"
                               ELSE typ \o " keine zugehörige Lizenz gefunden"

DatedLicenseRows(i) == {j \in LicenseRows(i) : ~DateAbsent(OwnDate(j))}

\* C11: for an App-type item whose own unpublication date is absent (missing, empty
\* or 'nan'), the date used in the status-OK check is the unpublication date of the
\* License-type row with the same site id, when such a row exists and has a date;
\* for every other item (not an App type, or with a date of its own) it is the
\* item's own date.
C11_EffectiveDate ==
    IssuesFound =>
        \A i \in Rows :
            LET used == EffectiveDate(duda_df, duda_df[i])
            IN IF IsApp(i) /\ DateAbsent(OwnDate(i)) /\ DatedLicenseRows(i) # {}
               THEN \E j \in DatedLicenseRows(i) : used = OwnDate(j)
               ELSE used = OwnDate(i)

\* the billing table before the repair
Before == load_duda_file(duda_raw)

\* the rows of the table df that carry the id
Carrying(df, id) == {k \in 1..Len(df) : df[k].Site_Alias = id}

\* the usable URL of row i of df: its own, or for an App row without URL the one of
\* the first row with the same id that has a URL; None when there is none
UsableUrl(df, i) ==
    LET with_url == {k \in Carrying(df, df[i].Site_Alias) : HasUrlCell(df[k])}
        first == CHOOSE k \in with_url : \A m \in with_url : k <= m
    IN IF HasUrlCell(df[i]) THEN strip(str(df[i].Site_URL))
       ELSE IF is_app_product(categorize_charge_frequency(df[i].Charge_Frequency))
               /\ with_url # {}
       THEN strip(str(df[first].Site_URL))
       ELSE None

\* the CRM entries whose Domain contains the domain of the URL
DomainEntries(url) ==
    LET domain == lower(extract_domain(url))
    IN {k \in 1..Len(crm_df) : Contains(lower(str(crm_df[k].Domain)), domain)}

\* for each row of df: whether it carries a corrupted id, its usable URL and the
\* CRM entries the domain search with that URL finds
Searches(df) ==
    [i \in 1..Len(df) |->
        LET url == UsableUrl(df, i)
        IN [corrupted |-> IsScientific(df[i].Site_Alias),
            url |-> url,
            found |-> IF url = None THEN {} ELSE DomainEntries(url)]]

\* a row that carries a corrupted id and has a usable URL found in exactly one entry
Repairable(search) ==
    search.corrupted /\ search.url # None /\ Cardinality(search.found) = 1

MatchedId(search) ==
    LET k == CHOOSE e \in search.found : TRUE
    IN strip(str(crm_df[k].Site_ID_Duda))

CrmIdsSound == \A e \in 1..Len(crm_df) : ~IsScientific(str(crm_df[e].Site_ID_Duda))

NotInCrm(k) ==
    /\ Len(Produced(k)) = 1
    /\ Produced(k)[1].Problem_Typ = "Site nicht im CRM"

-----------------------------------------------------------------------------
(* verify_issues *)

\* the index label of row k: the name of a Series, the position in the frame
\* find_issues built
Label(rows, k) == IF "name" \in DOMAIN rows[k] THEN rows[k].name ELSE k - 1

\* the rows that are issue i of the input, with or without API columns
IsIssue(row, label, i) ==
    /\ label = i - 1
    /\ [c \in DOMAIN issues[i] |-> row[c]] = issues[i]

Occurrences(rows, i) ==
    Count([k \in 1..Len(rows) |-> IsIssue(rows[k], Label(rows, k), i)])

\* row is in the table rows: same label, same entries
InRows(row, rows) ==
    \E j \in 1..Len(rows) :
        /\ Label(rows, j) = row.name
        /\ \A c \in DOMAIN row : rows[j][c] = row[c]

\* C14: when verify_issues has returned, every issue of the input is exactly
\* once in remaining_issues or in false_positives and in one of the two only,
\* so the two together are as many as the input, and every entry of api_errors
\* is a row of remaining_issues.
C14_VerifyPartitions ==
    pc = "verified" =>
        /\ Len(ret.remaining_issues) + Len(ret.false_positives) = Len(issues)
        /\ \A i \in 1..Len(issues) :
              Occurrences(ret.remaining_issues, i) + Occurrences(ret.false_positives, i) = 1
        /\ \A k \in 1..Len(ret.api_errors) : InRows(ret.api_errors[k], ret.remaining_issues)

\* a verification that cleared an issue and failed to query another
C14_Witness ==
    /\ pc = "verified"
    /\ api_available
    /\ ret.false_positives # <<>>
    /\ ret.api_errors # <<>>

\* the loop has sent the status query for the issue labelled name
Queried(name) ==
    \E k \in 1..Len(requests) : requests[k].query = "status" /\ requests[k].name = name

\* the status query for the issue labelled name was not answered with a 200:
\* it timed out, raised another exception or came back with another status
\* code, and no history query followed it
QueryFailed(name) ==
    /\ Queried(name)
    /\ ~\E k \in 1..Len(requests) :
          requests[k].query = "activities" /\ requests[k].name = name

\* the remaining issues: the list of the loop, or the table returned
Remaining == IF pc = "verified" THEN ret.remaining_issues ELSE verified_issues

\* C15: an issue whose status query failed (timeout, another exception, a
\* status code other than 200) is in the remaining issues and in api_errors,
\* once in each and marked ERROR, and is not in false_positives; this holds from
\* the pass of the loop that queried it on and in what verify_issues returns.
C15_FailedQueryIsKept ==
    ~PassesThrough =>
        \A i \in 1..Len(issues) :
            QueryFailed(i - 1) =>
                /\ Occurrences(Remaining, i) = 1
                /\ Occurrences(api_errors, i) = 1
                /\ Occurrences(false_positives, i) = 0
                /\ \A k \in 1..Len(api_errors) :
                      api_errors[k].name = i - 1 => api_errors[k].API_Published = "ERROR"
                /\ pc = "verified" =>
                      /\ Occurrences(ret.api_errors, i) = 1
                      /\ Occurrences(ret.false_positives, i) = 0

\* a verification has returned in which a query timed out and another was
\* refused with a status code
C15_Witness ==
    /\ pc = "verified"
    /\ \E i, j \in 1..Len(issues) :
          /\ QueryFailed(i - 1) /\ QueryFailed(j - 1)
          /\ \E k \in 1..Len(ret.api_errors) :
                ret.api_errors[k].name = i - 1 /\ ret.api_errors[k].API_Analysis = "Timeout"
          /\ \E k \in 1..Len(ret.api_errors) :
                /\ ret.api_errors[k].name = j - 1
                /\ ret.api_errors[k].API_Analysis = "Site nicht gefunden"

\* the number an analysis text gives after prefix
DaysAfter(text, prefix) ==
    LET rest == DropFirst(text, Len(prefix))
    IN Days(ToInt(SubSeq(rest, 1, FindFirst(rest, {" "}, 1) - 1)))

\* days_offline as API_Analysis reports it: a number of days, or unknown
ReportedDays(text) ==
    IF StartsWith(text, "Site offline seit ") THEN DaysAfter(text, "Site offline seit ")
    ELSE IF StartsWith(text, "Site ist offline seit ")
         THEN DaysAfter(text, "Site ist offline seit ")
    ELSE NoDays

\* the lists of the loop, or those returned
FalsePositives == IF pc = "verified" THEN ret.false_positives ELSE false_positives
ApiErrors == IF pc = "verified" THEN ret.api_errors ELSE api_errors

\* the entries of rows labelled name
Named(rows, name) == Filter(rows, [k \in 1..Len(rows) |-> rows[k].name = name])

\* what the verification holds for the issue labelled name
EntriesOf(name) == Named(Remaining, name) \o Named(FalsePositives, name)

WithinGrace(days_offline) == ~days_offline.is_none /\ days_offline.days <= 31

\* C16: an issue whose status query was answered (200) is, when the site is
\* reported published, in false_positives and not among the remaining issues;
\* when the site is reported not published it is in false_positives exactly
\* when days_offline is known and at most 31, and otherwise (more than 31 days
\* or unknown) among the remaining issues and not in api_errors.
C16_AnsweredQueryClassified ==
    ~PassesThrough =>
        \A i \in 1..Len(issues) :
            Queried(i - 1) /\ ~QueryFailed(i - 1) =>
                /\ Len(EntriesOf(i - 1)) = 1
                /\ LET e == EntriesOf(i - 1)[1]
                       cleared == Occurrences(FalsePositives, i) = 1
                                  /\ Occurrences(Remaining, i) = 0
                       retained == Occurrences(Remaining, i) = 1
                                   /\ Occurrences(FalsePositives, i) = 0
                                   /\ Occurrences(ApiErrors, i) = 0
                   IN /\ e.API_Published \in {"True", "False"}
                      /\ e.API_Published = "True" => cleared
                      /\ e.API_Published = "False" =>
                            IF WithinGrace(ReportedDays(e.API_Analysis))
                            THEN cleared ELSE retained

\* a verification has returned that cleared a site offline for 31 days and
\* retained one offline for 32 days
C16_Witness ==
    /\ pc = "verified"
    /\ \E k \in 1..Len(ret.false_positives) :
          /\ ret.false_positives[k].API_Published = "False"
          /\ ReportedDays(ret.false_positives[k].API_Analysis) = Days(31)
    /\ \E k \in 1..Len(ret.remaining_issues) :
          /\ ret.remaining_issues[k].API_Published = "False"
          /\ ReportedDays(ret.remaining_issues[k].API_Analysis) = Days(32)

\* the positions of the unpublish events of a fetched history whose date can be read
UnpublishEvents(publish_history) ==
    IF publish_history.is_none THEN {}
    ELSE {k \in 1..Len(publish_history.list) :
            /\ Contains(lower(publish_history.list[k].type), "unpublish")
            /\ ~days_since_date(publish_history.list[k].date).is_none}

\* the days since the event with the latest date among them
LatestUnpublish(publish_history) ==
    LET events == UnpublishEvents(publish_history)
        days == {days_since_date(publish_history.list[k].date).days : k \in events}
    IN Days(CHOOSE d \in days : \A other \in days : d <= other)

\* C17: for a site reported not published, days_offline is that of the
\* unpublication-date field of the answer when the field is there and can be
\* read; when the field is absent, it is computed from the date of the unpublish
\* event with the latest date among the unpublish events of the fetched history.
C17_DaysOfflineSource ==
    pc = "returned" /\ ~HasKey(args.api_result, "error") /\ ~args.api_result.is_published =>
        LET unpublication_date == args.api_result.unpublication_date
            publish_history == args.api_result.publish_history
        IN /\ ~days_since_date(unpublication_date).is_none =>
                 ReportedDays(ret.reason) = days_since_date(unpublication_date)
           /\ unpublication_date = None /\ UnpublishEvents(publish_history) # {} =>
                 ReportedDays(ret.reason) = LatestUnpublish(publish_history)

\* the secrets lack a user name or a password
CredentialsAbsent == api_username \in {None, ""} \/ api_password \in {None, ""}

\* C18: without credentials verify_issues sends no request, and what it
\* returns is the table of issues it was given, with no column added, an empty
\* list of false positives and an empty list of API errors.
C18_PassThroughWithoutCredentials ==
    CredentialsAbsent =>
        /\ requests = <<>>
        /\ pc # "verifying"
        /\ pc = "verified" => ret = Returned(issues, <<>>, <<>>)

\* verify_issues has returned two issues as they were, the password missing
C18_Witness ==
    /\ pc = "verified"
    /\ api_username = "api-user" /\ api_password = None
    /\ Len(issues) = 2
    /\ ret.remaining_issues = issues
    /\ ret.false_positives = <<>> /\ ret.api_errors = <<>>

\* the status queries sent so far, in the order they were sent
StatusQueries == Filter(requests, [k \in 1..Len(requests) |-> requests[k].query = "status"])

\* one status query for each of the first n issues, in the order of the input
InInputOrder(n) ==
    [k \in 1..n |-> [query |-> "status", site_id |-> issues[k].Site_Alias, name |-> k - 1]]

\* C19: with credentials, the status queries sent are at any time one for each
\* issue the loop has gone through, in the order of the input and none twice,
\* whether a query failed or not, and the call always comes to return, with as
\* many status queries made as there are issues.
C19_SequentialQueries ==
    /\ [](~CredentialsAbsent =>
            /\ StatusQueries = InInputOrder(idx)
            /\ api_calls_made = idx
            /\ idx <= Len(issues))
    /\ (~CredentialsAbsent ~>
            (pc = "verified" /\ Len(StatusQueries) = Len(issues) /\ idx = Len(issues)))

\* the call has returned after a failed query for the first of two issues and
\* an answered query for the second
C19_Witness ==
    /\ pc = "verified"
    /\ Len(issues) = 2
    /\ QueryFailed(0)
    /\ Queried(1) /\ ~QueryFailed(1)
    /\ Len(StatusQueries) = 2

-----------------------------------------------------------------------------
(* categorize_charge_frequency *)

\* the product types: License, Shop and the types of apps
ProductTypes == {"Lizenz", "Shop"} \cup app_types

\* C20: for every charge frequency, the empty string and a missing value
\* included, categorize_charge_frequency returns one product type, which is
\* 'Lizenz', 'Shop' or one of the app types CCB, AudioEye, Paperform,
\* RSS/Social, SiteSearch, BookingTool, IVR, Apps, and a second call on the same
\* input returns the same type.
C20_ClassificationTotal ==
    /\ pc = "returned" => ret \in ProductTypes
    /\ pc = "returned again" => ret.first \in ProductTypes /\ ret.second = ret.first

(* The CRM export and the table load_crm_file made of it *)

ExportColumns == args.file.columns
ExportRow(i) == args.file.rows[i]
ExportIndices == 1..Len(args.file.rows)
CrmLoaded == pc = "returned" /\ args.fn = "load_crm_file" /\ ret.ok

\* the cell of an export row in the column of a kind; Missing without the column
Cell(row, kind) ==
    IF \E c \in DOMAIN row : Kind(c) = kind
    THEN row[CHOOSE c \in DOMAIN row : Kind(c) = kind]
    ELSE Missing

Blank(v) == v = Missing \/ isna(v) \/ strip(v) = ""
Text(v) == IF v = Missing THEN "" ELSE strip(str(v))

StandardIds == {Text(Cell(ExportRow(i), "site")) : i \in {j \in ExportIndices : ~isna(Cell(ExportRow(j), "site"))}}
StandardCount == Cardinality({j \in ExportIndices : ~isna(Cell(ExportRow(j), "site"))})
LandingpageOnly(i) ==
    /\ ~Blank(Cell(ExportRow(i), "lp"))
    /\ Text(Cell(ExportRow(i), "lp")) \notin StandardIds
SyntheticIndices == {k \in 1..Len(ret.df) : k > StandardCount}

\* the project name the table gives an export row
ProjectName(row) ==
    IF Cell(row, "project") = Missing THEN "Unbekannt" ELSE Text(Cell(row, "project"))

SyntheticFor(k, i, projektname) ==
    /\ ret.df[k].Site_ID_Duda = Text(Cell(ExportRow(i), "lp"))
    /\ ret.df[k].Workflow_Status = Text(Cell(ExportRow(i), "status"))
    /\ ret.df[k].Domain = Text(Cell(ExportRow(i), "domain"))
    /\ ret.df[k].Projektname = projektname

LandingpageKeys(i, projektname) ==
    ~Blank(Cell(ExportRow(i), "lp")) =>
        /\ \E k \in 1..Len(ret.df) :
              ret.df[k].Site_ID_Duda = Text(Cell(ExportRow(i), "lp"))
        /\ IF LandingpageOnly(i)
           THEN \E k \in SyntheticIndices : SyntheticFor(k, i, projektname)
           ELSE \A k \in SyntheticIndices :
                   ret.df[k].Site_ID_Duda # Text(Cell(ExportRow(i), "lp"))

\* C21 as stated: after load_crm_file every non-empty landing-page id of the
\* export is a key of the table: it is a standard site id, and then no
\* synthetic row is keyed by it, or a synthetic row keyed by it carries the
\* status and domain of its export row and that row's project name followed
\* by " (Landingpage)".
C21_LandingpageIdsAreKeys ==
    CrmLoaded =>
        \A i \in ExportIndices :
            LandingpageKeys(i, ProjectName(ExportRow(i)) \o " (Landingpage)")

\* C21 amended: the same, the synthetic row of an export without a project
\* column being named "Landingpage"; and the synthetic rows are exactly one
\* per export row whose landing-page id is no standard id.
C21_LandingpageIdsAreKeysAmended ==
    CrmLoaded =>
        /\ \A i \in ExportIndices :
              LandingpageKeys(i, IF Cell(ExportRow(i), "project") = Missing
                                 THEN "Landingpage"
                                 ELSE ProjectName(ExportRow(i)) \o " (Landingpage)")
        /\ Cardinality(SyntheticIndices)
              = Cardinality({i \in ExportIndices : LandingpageOnly(i)})

\* an export with a landing-page id that gets a synthetic row and another
\* that is a standard id
C21_Witness ==
    /\ CrmLoaded
    /\ \E i, j \in ExportIndices :
          /\ LandingpageOnly(i)
          /\ ~Blank(Cell(ExportRow(j), "lp")) /\ ~LandingpageOnly(j)


(* Several CRM entries with the same Site-ID-Duda *)

FirstEntry(id) == CHOOSE k \in CrmEntries(id) : \A j \in CrmEntries(id) : k <= j
LastEntry(id) == CHOOSE k \in CrmEntries(id) : \A j \in CrmEntries(id) : k >= j
IssuesOf(id) == {k \in 1..Len(issues) : issues[k].Site_Alias = id}
BilledWith(id) == {i \in Rows : SiteId(i) = id}

\* every billed item that is no app and whose site is in the CRM is judged by
\* the entry k(i): no issue when is_status_ok holds of that entry's status, and
\* otherwise one issue per item, carrying that entry's status
JudgedBy(id, k) ==
    IF is_status_ok(crm_df[k].Workflow_Status, NaN)
    THEN IssuesOf(id) = {}
    ELSE /\ Cardinality(IssuesOf(id)) = Cardinality(BilledWith(id))
         /\ \A n \in IssuesOf(id) : issues[n].CRM_Status = crm_df[k].Workflow_Status

PlainRows == \A i \in Rows : ~IsApp(i) /\ isna(OwnDate(i))

\* C22 as stated: the Site-ID-Duda values of the final CRM table are pairwise
\* different, and a billed item whose site has several entries is judged by
\* the last of them.
C22_UniqueKeyLastMatch ==
    IssuesFound /\ PlainRows =>
        /\ \A j, k \in 1..Len(crm_df) :
              crm_df[j].Site_ID_Duda = crm_df[k].Site_ID_Duda => j = k
        /\ \A i \in Rows : InCrm(i) => JudgedBy(SiteId(i), LastEntry(SiteId(i)))

\* C22 amended: a billed item whose site has one or several CRM entries is
\* judged by the first of them in table order.
C22_FirstMatch ==
    IssuesFound /\ PlainRows =>
        \A i \in Rows : InCrm(i) => JudgedBy(SiteId(i), FirstEntry(SiteId(i)))

\* a billed site with two CRM entries, the first online and the last offline,
\* and with two synthetic landing-page entries of different status
C22_Witness ==
    /\ IssuesFound /\ PlainRows
    /\ \E i \in Rows :
          /\ Cardinality(CrmEntries(SiteId(i))) >= 2
          /\ is_status_ok(crm_df[FirstEntry(SiteId(i))].Workflow_Status, NaN)
          /\ ~is_status_ok(crm_df[LastEntry(SiteId(i))].Workflow_Status, NaN)
    /\ \E j, k \in 1..Len(crm_df) :
          /\ j # k /\ crm_df[j].Site_ID_Duda = crm_df[k].Site_ID_Duda
          /\ crm_df[j].Landingpage_ID = crm_df[j].Site_ID_Duda

(* Exports that cannot be loaded *)

BillingLacksColumn ==
    \E c \in {"Site Alias", "Site URL", "Charge Frequency", "Should Charge"} :
        c \notin args.duda_columns
CrmColumns == Range(args.crm_file.columns)
CrmHasColumn(words) ==
    \E c \in CrmColumns : \A w \in words : Contains(lower(c), w)
CrmHasStandardId == \E c \in CrmColumns : lower(c) \in {"duda-site-id", "duda_site_id"}
NothingProduced == crm_df = <<>> /\ issues = <<>> /\ summary = None
RunFailed == pc = "failed" /\ ~ret.ok /\ NothingProduced
StandardRowsOf(file) ==
    Cardinality({j \in 1..Len(file.rows) : ~isna(Cell(file.rows[j], "site"))})

MissingColumns(synthetic_name) ==
    /\ (pc # "files" /\ BillingLacksColumn) => RunFailed /\ duda_df = <<>>
    /\ (pc \notin {"files", "duda loaded"} /\ ~CrmHasColumn({"workflow", "status"}))
          => RunFailed
    /\ pc = "failed"
          => BillingLacksColumn \/ ~CrmHasColumn({"workflow", "status"})
                \/ ~CrmHasStandardId
    /\ (pc \in {"loaded", "analyzed", "issues", "done"} /\ ~CrmHasColumn({"domain"}))
          => \A k \in 1..Len(crm_df) : crm_df[k].Domain = ""
    /\ (pc \in {"loaded", "analyzed", "issues", "done"} /\ ~CrmHasColumn({"projekt"}))
          => \A k \in 1..Len(crm_df) :
                crm_df[k].Projektname = IF k <= StandardRowsOf(args.crm_file)
                                        THEN "Unbekannt" ELSE synthetic_name

\* C23 as stated: the run fails with an error and produces no table, issues or
\* summary when the billing export lacks Site Alias, Site URL, Charge Frequency
\* or Should Charge, or the CRM export has no workflow-status column; without
\* a domain or project column the CRM export is loaded, every entry having the
\* domain '' and the project name 'Unbekannt'.
C23_MissingColumns == args.fn = "main" => MissingColumns("Unbekannt")

\* C23 amended: the same, the synthetic landing-page entries of an export
\* without a project column being named 'Landingpage'.
C23_MissingColumnsAmended == args.fn = "main" => MissingColumns("Landingpage")

\* a complete billing export was read and the CRM export, which has a
\* standard id column but no workflow-status column, ended the run
C23_Witness ==
    /\ args.fn = "main" /\ pc = "failed"
    /\ ~BillingLacksColumn /\ duda_raw # <<>>
    /\ CrmHasStandardId /\ ~CrmHasColumn({"workflow", "status"})
    /\ args.crm_file.rows # <<>>

(* The days of an item that is not in the CRM *)

FirstLicenseRow(i) == CHOOSE j \in LicenseRows(i) : \A k \in LicenseRows(i) : j <= k
InheritsDate(i) ==
    /\ IsApp(i) /\ DateAbsent(OwnDate(i))
    /\ LicenseRows(i) # {}
    /\ ~DateAbsent(OwnDate(FirstLicenseRow(i)))
NotInCrmDays(i, days) ==
    /\ Len(Produced(i)) = 1
    /\ Produced(i)[1].Problem_Typ = "Site nicht im CRM"
    /\ Produced(i)[1].Unpublish_Tage = days
    /\ \E k \in 1..Len(issues) : issues[k] = Produced(i)[1]

\* C24 as stated: the 'Site nicht im CRM' issue of an item without CRM match
\* carries the days since the item's own unpublication date when it has one,
\* and no days when it has none.
C24_OwnDateOnly ==
    IssuesFound =>
        \A i \in Rows : ~InCrm(i) =>
            NotInCrmDays(i, IF DateAbsent(OwnDate(i)) THEN NoDays
                            ELSE days_since_date(OwnDate(i)))

\* C24 amended: the same, except that an app without a date of its own carries
\* the days since the date of the first licence row of its site, when that row
\* has one.
C24_EffectiveDateDays ==
    IssuesFound =>
        \A i \in Rows : ~InCrm(i) =>
            NotInCrmDays(i, IF InheritsDate(i)
                            THEN days_since_date(OwnDate(FirstLicenseRow(i)))
                            ELSE IF DateAbsent(OwnDate(i)) THEN NoDays
                            ELSE days_since_date(OwnDate(i)))

\* items that are not in the CRM: an app that takes the date of its licence
\* row, and the licence with its own date
C24_Witness ==
    /\ IssuesFound
    /\ \E i, j \in Rows :
          /\ ~InCrm(i) /\ InheritsDate(i)
          /\ j = FirstLicenseRow(i)
          /\ Produced(i)[1].Unpublish_Tage = Produced(j)[1].Unpublish_Tage
          /\ Produced(i)[1].Unpublish_Tage # NoDays

(* The counts of the summary *)

\* C25: find_issues produces at most one issue per billed row, so that
\* issues_count <= total_charged and ok_count >= 0, and for every product type
\* p of the breakdown 0 <= breakdown[p].issues <= breakdown[p].total and
\* breakdown[p].ok >= 0.
C25_CountsWithinTotals ==
    /\ IssuesFound =>
          /\ \A i \in Rows : Len(Produced(i)) <= 1
          /\ Len(issues) <= Len(duda_df)
          /\ \A id \in {SiteId(i) : i \in Rows} :
                Cardinality({k \in 1..Len(issues) : issues[k].Site_Alias = id})
                   <= Cardinality({i \in Rows : SiteId(i) = id})
    /\ pc = "done" =>
          /\ summary.issues_count = Len(issues)
          /\ summary.issues_count <= summary.total_charged
          /\ summary.ok_count >= 0
          /\ \A p \in DOMAIN summary.product_breakdown :
                /\ 0 <= summary.product_breakdown[p].issues
                /\ summary.product_breakdown[p].issues
                      <= summary.product_breakdown[p].total
                /\ summary.product_breakdown[p].ok >= 0

\* every billed item is an issue: an app and a licence of one site that is not
\* in the CRM
C25_Witness ==
    /\ pc = "done"
    /\ summary.total_charged = 2 /\ summary.issues_count = 2 /\ summary.ok_count = 0
    /\ \E p, q \in DOMAIN summary.product_breakdown :
          /\ p # q /\ is_app_product(p)
          /\ summary.product_breakdown[p].issues = summary.product_breakdown[p].total
          /\ summary.product_breakdown[q].ok = 0

(* What the repair leaves alone *)

RepairReturned == pc \in {"repaired", "repaired again"}

\* the table df differs from the table before in nothing but the Site Alias
\* of rows whose id was in scientific notation and the Site URL of rows that
\* had none
FrameOf(before, df) ==
    /\ Len(df) = Len(before)
    /\ \A i \in 1..Len(before) :
          /\ df[i].Charge_Frequency = before[i].Charge_Frequency
          /\ df[i].Should_Charge = before[i].Should_Charge
          /\ df[i].Unpublication_Date = before[i].Unpublication_Date
          /\ ~IsScientific(str(before[i].Site_Alias))
                => df[i].Site_Alias = before[i].Site_Alias
          /\ HasUrlCell(before[i]) => df[i].Site_URL = before[i].Site_URL

\* C26: fix_scientific_notation_ids never adds, removes or reorders rows, never
\* changes the site id of a row whose id is not in scientific notation, and
\* never changes charge frequency, should-charge or unpublication date; it
\* changes only the Site Alias of corrupted rows and the Site URL of rows that
\* had none.  The same holds of a second application to its own result.
C26_RepairFrame ==
    /\ RepairReturned => FrameOf(Before, ret)
    /\ pc = "repaired again" => FrameOf(ret, duda_df)

\* two rows of one corrupted site with different URLs were given the true id,
\* each keeping its URL
C26_Witness ==
    /\ pc = "repaired" /\ Len(ret) = 2
    /\ \A i \in 1..2 : IsScientific(str(Before[i].Site_Alias)) /\ ret[i].Site_Alias = TrueId
    /\ HasUrlCell(Before[1]) /\ HasUrlCell(Before[2])
    /\ Before[1].Site_URL # Before[2].Site_URL

(* Which corrupted ids are rewritten, and to what *)

CorruptedIds(df) == {df[i].Site_Alias : i \in {k \in 1..Len(df) : IsScientific(df[k].Site_Alias)}}

\* the rows carrying the id whose own search succeeds
Tries(df, id) == {i \in Carrying(df, id) : Repairable(Searches(df)[i])}
FirstTry(df, id) == CHOOSE i \in Tries(df, id) : \A k \in Tries(df, id) : i <= k

\* the id is left alone when no row carrying it has a usable URL found in
\* exactly one CRM entry, and is otherwise replaced, in every row carrying
\* it, by the site id of the entry found for the first such row
RewrittenByFirstTry(before, df, id) ==
    \A k \in Carrying(before, id) :
        df[k].Site_Alias = IF Tries(before, id) = {} THEN id
                           ELSE MatchedId(Searches(before)[FirstTry(before, id)])

\* C27: a corrupted id is rewritten if and only if a row carrying it has a
\* usable URL whose domain matches exactly one CRM entry, and the target is the
\* match of the first such row in table order.
C27_RewrittenIffRepairable ==
    pc = "repaired" =>
        \A id \in CorruptedIds(Before) : RewrittenByFirstTry(Before, ret, id)

\* the same statement for CRM tables none of whose site ids is itself in
\* scientific notation (C27 restricted)
C27_RewrittenIffRepairableSound ==
    pc = "repaired" /\ CrmIdsSound =>
        \A id \in CorruptedIds(Before) : RewrittenByFirstTry(Before, ret, id)

\* the first row of the corrupted id fails (its domain is in two entries or in
\* none) and the second row, with another URL, repairs both
C27_LaterRowRepairs ==
    /\ pc = "repaired" /\ CrmIdsSound
    /\ Len(ret) = 2
    /\ Before[1].Site_Alias = Corrupted /\ Before[2].Site_Alias = Corrupted
    /\ HasUrlCell(Before[1])
    /\ Tries(Before, Corrupted) = {2}
    /\ ret[1].Site_Alias = ret[2].Site_Alias /\ ret[1].Site_Alias # Corrupted

(* Dates in the future *)

\* the date text is read as a moment later than now
Later(a, b) ==
    LET key(t) == <<t.Y, t.m, t.d, t.H, t.M, t.S, t.f>>
    IN \E k \in 1..7 : /\ key(a)[k] > key(b)[k]
                       /\ \A j \in 1..(k - 1) : key(a)[j] = key(b)[j]
InFuture(date) ==
    /\ date # Missing /\ ~isna(date)
    /\ TryFormats(strip(date), 1).ok
    /\ Later(TryFormats(strip(date), 1).v, now)

\* C28: a date in the future is within grace: is_status_ok holds of a status
\* with 'offline' or 'gekündigt' and such a date, and analyze_api_result
\* classifies a site that is not published and has such an unpublication date
\* as false_positive.
C28_FutureDateWithinGrace ==
    pc = "returned" =>
        /\ (/\ args.fn = "is_status_ok"
            /\ \E term \in {"offline", "gekündigt"} : Contains(lower(args.status), term)
            /\ InFuture(args.unpublication_date))
              => ret = TRUE
        /\ (/\ args.fn = "analyze_api_result"
            /\ ~HasKey(args.api_result, "error")
            /\ ~args.api_result.is_published
            /\ InFuture(args.api_result.unpublication_date))
              => ret.classification = "false_positive"

\* a site not published whose offline date is a month ahead was cleared
C28_Witness ==
    /\ pc = "returned" /\ args.fn = "analyze_api_result"
    /\ ~args.api_result.is_published
    /\ InFuture(args.api_result.unpublication_date)
    /\ days_since_date(args.api_result.unpublication_date).days < -20
    /\ ret.classification = "false_positive"

(* A history query that fails after a status query that succeeded *)

\* the history query raised, was answered with another code than 200, or its
\* answer could not be processed
HistoryFailed(h) ==
    \/ h.raises # None
    \/ h.status_code # 200
    \/ \E k \in 1..Len(h.json) : h.json[k].activity_type = None

NoExplicitDate(d) == d = Missing \/ isna(d) \/ strip(d) = ""

\* C29: when the status query is answered with 200 and the history query fails,
\* the result carries the data of the status response and no history; such a
\* result is never classified api_error, it is a false_positive only if the
\* site is published or its own unpublication date is within grace, and a site
\* not published without explicit unpublication date is a confirmed_issue.
C29_HistoryFailureTolerated ==
    /\ (/\ pc = "status" /\ args.fn = "get_site_status"
        /\ args.response.raises = None /\ args.response.status_code = 200
        /\ HistoryFailed(args.history_response))
          => /\ ~HasKey(ret, "error")
             /\ ret.publish_history = NoList
             /\ ret.is_published = (args.response.json.publish_status = "PUBLISHED")
             /\ ret.unpublication_date
                   = IF args.response.json.unpublication_date = Missing THEN None
                     ELSE args.response.json.unpublication_date
    /\ (/\ pc = "returned" /\ args.fn = "analyze_api_result"
        /\ ~HasKey(args.api_result, "error")
        /\ args.api_result.publish_history = NoList)
          => /\ ret.classification # "api_error"
             /\ ret.classification = "false_positive"
                   <=> \/ args.api_result.is_published
                       \/ WithinGrace(days_since_date(args.api_result.unpublication_date))
             /\ (/\ ~args.api_result.is_published
                 /\ NoExplicitDate(args.api_result.unpublication_date))
                   => ret.classification = "confirmed_issue"

\* the history query raised for a site that is not published and has no date
C29_Witness ==
    /\ pc = "returned" /\ args.fn = "analyze_api_result"
    /\ ~HasKey(args.api_result, "error")
    /\ args.api_result.publish_history = NoList
    /\ ~args.api_result.is_published
    /\ args.api_result.unpublication_date = None
    /\ ret.classification = "confirmed_issue"
    /\ requests # <<>>

(* The report and the stored verification *)

ReportWithTallies ==
    pc = "rendered" /\ ~csv_data.is_none /\ ~csv_data.api_results.is_none

\* the sites of the issue rows, in order
SitesOf(rows) == [k \in 1..Len(rows) |-> rows[k].Site_Alias]

\* C30: whenever the report carries the API tallies of the stored
\* verification, its issue rows are the stored remaining issues of that
\* verification (they list the same sites in the same order).
C30_ReportFromOneRun ==
    ReportWithTallies => SitesOf(csv_data.rows) = SitesOf(session_state["verified_issues"])

\* the report of the run in which the button was pressed is made of the
\* results of that verification alone
C30_ReportOfVerifyingRun ==
    ReportWithTallies /\ args.verify_button =>
        /\ csv_data.rows = session_state["verified_issues"]
        /\ csv_data.rows = ret.remaining_issues
        /\ csv_data.api_results.false_positives = Len(ret.false_positives)

\* a report rendered in the run of the verification, one issue cleared
C30_VerifyingRunReported ==
    /\ ReportWithTallies /\ args.verify_button
    /\ Len(issues) = 2 /\ Len(csv_data.rows) = 1
    /\ csv_data.api_results.false_positives = 1

=============================================================================
